---- MODULE Spec2Model ----
(***************************************************************************)
(* ViewJS: the view hierarchy lifecycle engine.                            *)
(*                                                                         *)
(* Three snapshots of the library are modelled side by side, selected by   *)
(* the variable ver, which never changes in a behaviour:                   *)
(*   "0.1.0"  src/view.js lines 377-896    (0.2.0 plus the markup scanner, *)
(*                                          outlets and target actions)    *)
(*   "0.2.0"  src/view.js lines 1-373      (container based, addChildView) *)
(*   "0.2.1"  src/unnamed/part_002         (name based, property setters)  *)
(*                                                                         *)
(* The visual surface (the DOM and the jQuery calls the library makes on   *)
(* it) is modelled as an ordered forest of elements; the resource loader   *)
(* (require) as a bag of pending requests whose callbacks run one at a     *)
(* time, in any order.                                                     *)
(***************************************************************************)
EXTENDS Integers, Sequences, FiniteSets, TLC

VARIABLES ver, app, views, dom, pending, last, callbacks, obs

vars == <<ver, app, views, dom, pending, last, callbacks, obs>>

(***************************************************************************)
(* Bounds of the model.                                                    *)
(***************************************************************************)
\* size of the pool of element identities
MaxElem == 12
\* resource requests in flight at once
MaxPending == 2
\* length of a children collection
MaxKids == 2

\* the view objects the application may construct, in construction order
ViewSeq == <<"r", "c", "d">>
Views == {ViewSeq[i] : i \in 1..Len(ViewSeq)}

\* mount names used by the application and by the markup
Names == {"a", "b", "s", "t", "x"}
\* bundle identifiers and the mount names each bundle's markup declares
\* directly under its root element
BundleSeq == <<"shell", "leaf", "deck", "card", "pair">>
Bundles == {BundleSeq[i] : i \in 1..Len(BundleSeq)}
Undef == "undefined"
NoView == "none"
NoAttr == "-"

Markup(b) ==
  IF b = "shell" THEN <<"b">>
  ELSE IF b = "deck" THEN <<"s">>
  ELSE IF b = "card" THEN <<"t">>
  ELSE IF b = "pair" THEN <<"x", "b">>
  ELSE <<>>
\* mount elements of the host page, in document order
PageMarkup == <<"a", "b">>

\* The annotations of the markup read by 0.1.0.  The mount elements named "s"
\* and "t" are written
\*   <div data-view-container="s" data-load-view="View" data-load-bundle="card"
\*        data-outlet="o" data-event-tap="onTap" data-property-title="x">
\*   <div data-view-container="t" data-load-view="View" data-load-bundle="leaf"
\*        data-event-tap="onTap">
\* and the other mount elements carry no annotation.
OutletNames == {"o"}
EventNames == {"tap"}
PropertyNames == {"title"}
NoEntry == "absent"
LoadView(n) == IF n \in {"s", "t"} THEN "View" ELSE Undef
LoadBundle(n) == IF n = "s" THEN "card" ELSE IF n = "t" THEN "leaf" ELSE Undef
OutletAttr(n) == IF n = "s" THEN "o" ELSE Undef
EventAttr(n, ev) == IF n \in {"s", "t"} /\ ev = "tap" THEN "onTap" ELSE Undef
PropertyAttr(n, pr) == IF n = "s" /\ pr = "title" THEN "x" ELSE Undef

\* The applications that drive the library.  Each constructs the root view "r"
\* for the page's mount "a" and a child view "c" for the mount "b" of r's
\* markup; the third view "d" is
\*   "siblings"  a second child of r for the same mount "b",
\*   "chain"     a child of c, whose bundle then has a mount "b" of its own,
\*   "roots"     a second root view for the page's mount "a".
Apps == {"siblings", "chain", "roots"}
\* The applications that drive 0.1.0, whose bundles "deck" and "card" carry
\* markup annotations: each constructs the root view "r" for the page's mount
\* "a" with the bundle "deck";
\*   "auto"      leaves the children to the annotations,
\*   "explicit"  constructs a child view "c" for the mount "s" of r's markup
\*               itself.
Apps010 == {"auto", "explicit"}
\* The application "nest" constructs the root view "r" with the bundle "pair",
\* whose markup has the mounts "x" and "b", a child "c" for the mount "b" with
\* the bundle "card", whose markup has the mount "t", and a second child "d"
\* of r for that mount "t", which lies inside c's content.
AppsNest == {"nest"}
RootChoice(a, v) == v = "r" \/ (v = "d" /\ a = "roots")
NameChoice(a, v) ==
  IF RootChoice(a, v) THEN "a"
  ELSE IF a \in Apps010 THEN "s"
  ELSE IF a = "nest" /\ v = "d" THEN "t" ELSE "b"
BundleChoice(a, v) ==
  IF a \in Apps010 THEN (IF v = "r" THEN "deck" ELSE "card")
  ELSE IF a = "nest" THEN (IF v = "r" THEN "pair" ELSE IF v = "c" THEN "card" ELSE "leaf")
  ELSE IF v = "r" \/ (v = "c" /\ a = "chain") THEN "shell" ELSE "leaf"
\* the parent a view is given, at construction or later
OwnerChoice(a, v) ==
  IF RootChoice(a, v) THEN NoView
  ELSE IF v = "d" /\ a \in {"chain"} \cup Apps010 THEN "c" ELSE "r"
\* the views the application constructs itself
Constructs(a) ==
  IF a = "auto" THEN {"r"} ELSE IF a \in {"explicit", "edit", "duo"} THEN {"r", "c"} ELSE Views
ParentChoices(a, v) == {NoView, OwnerChoice(a, v)}
\* the children collections the application assigns to a view: none, or the
\* views it owns in construction order
KidChoices(a, v) ==
  {<<>>, SelectSeq(ViewSeq, LAMBDA c : c \in Constructs(a) /\ OwnerChoice(a, c) = v)}

\* Applications that leave properties out:
\*   "bare"  (0.2.0) constructs the views of "siblings" but may leave out the
\*           container or the bundle of its third view "d",
\*   "edit"  (0.2.1) constructs "r" and "c" only, may leave out the name or
\*           the bundle of "c", and assigns the properties of "c" and the
\*           children collection of "r" after construction.
\* 0.2.0 has no property setters, so "edit" runs on 0.2.1 only.
AppsEdit == {"bare", "edit"}
Runs == {<<"0.2.0", "bare">>, <<"0.2.1", "edit">>}
Edited(a) == IF a = "bare" THEN "d" ELSE "c"
NameEdits(a, v) == IF v = Edited(a) THEN {NameChoice(a, v), Undef} ELSE {NameChoice(a, v)}
BundleEdits(a, v) ==
  IF v = Edited(a) THEN {BundleChoice(a, v), Undef} ELSE {BundleChoice(a, v)}
RootEdits(a, v) == IF v = Edited(a) THEN BOOLEAN ELSE {RootChoice(a, v)}

\* The application "duo" (0.2.1) constructs "r" and its child "c" and
\* subscribes functions to the notification channels of "r".
AppsSubs == {"duo"}
Listened(a) == {"r"}

Elem == 1..MaxElem
Body == 0

(***************************************************************************)
(* Sequence helpers.                                                       *)
(***************************************************************************)
Range(s) == {s[i] : i \in 1..Len(s)}

RECURSIVE Uniq(_)
Uniq(s) ==
  IF s = <<>> THEN <<>>
  ELSE LET r == Uniq(SubSeq(s, 1, Len(s) - 1))
       IN IF s[Len(s)] \in Range(r) THEN r ELSE Append(r, s[Len(s)])

IndexOf(x, s) ==
  IF x \in Range(s) THEN CHOOSE i \in 1..Len(s) : s[i] = x /\ \A j \in 1..(i - 1) : s[j] # x
  ELSE 0

RECURSIVE Flatten(_)
Flatten(ss) == IF ss = <<>> THEN <<>> ELSE Head(ss) \o Flatten(Tail(ss))

RemoveAll(s, x) == SelectSeq(s, LAMBDA y : y # x)

RemoveAt(s, i) == SubSeq(s, 1, i - 1) \o SubSeq(s, i + 1, Len(s))

(***************************************************************************)
(* The visual surface: an ordered forest of elements.  d.n elements are in *)
(* use and are numbered 1..d.n; d.kids[e] lists the element children of e  *)
(* in document order (Body is the page); d.ename[e] is the value of e's    *)
(* mount attribute (data-view-container in 0.2.0, data-view-name in        *)
(* 0.2.1), NoAttr when it has none.                                        *)
(***************************************************************************)
EmptyDom ==
  [n |-> 0, kids |-> [e \in 0..MaxElem |-> <<>>], ename |-> [e \in Elem |-> NoAttr]]

\* parentNode: -1 for an element that is the root of a detached tree
ParentNode(d, e) ==
  IF \E p \in 0..MaxElem : e \in Range(d.kids[p])
  THEN CHOOSE p \in 0..MaxElem : e \in Range(d.kids[p])
  ELSE -1

\* jQuery .parents() of one element: nearest ancestor first
RECURSIVE Ancestors(_, _)
Ancestors(d, e) ==
  LET p == ParentNode(d, e)
  IN IF p = -1 THEN <<>> ELSE IF p = Body THEN <<Body>> ELSE <<p>> \o Ancestors(d, p)

\* the elements of the trees rooted at seq, in document order
RECURSIVE PreOrder(_, _)
PreOrder(d, seq) ==
  IF seq = <<>> THEN <<>>
  ELSE <<Head(seq)>> \o PreOrder(d, d.kids[Head(seq)]) \o PreOrder(d, Tail(seq))

\* the root of the tree an element is in (Body when it is in the page)
TreeTop(d, e) == LET a == Ancestors(d, e) IN IF a = <<>> THEN e ELSE a[Len(a)]

\* jQuery .find("[attr='n']") from a set of elements: matching descendants
DomFind(d, roots, n) ==
  Uniq(SelectSeq(Flatten([i \in 1..Len(roots) |-> PreOrder(d, d.kids[roots[i]])]),
                 LAMBDA e : d.ename[e] = n))

\* jQuery $("[attr='n']"): matching elements of the page
DomQuery(d, n) == DomFind(d, <<Body>>, n)

\* jQuery .children() of a set of elements
DomChildren(d, els) == Flatten([i \in 1..Len(els) |-> d.kids[els[i]]])

\* jQuery .parents() of a set of elements
DomParents(d, els) == Uniq(Flatten([i \in 1..Len(els) |-> Ancestors(d, els[i])]))

\* removes an element from its parent's children (the element keeps its subtree)
DomDetach(d, e) ==
  LET p == ParentNode(d, e)
  IN IF p = -1 THEN d ELSE [d EXCEPT !.kids[p] = RemoveAll(@, e)]

\* jQuery .empty() of one element
DomEmpty(d, e) == [d EXCEPT !.kids[e] = <<>>]

\* parses a bundle's markup into fresh detached elements; the root is d.n + 1
DomParse(d, b) ==
  LET m == Markup(b)
      root == d.n + 1
  IN [d EXCEPT !.n = d.n + 1 + Len(m),
               !.kids = [@ EXCEPT ![root] = [i \in 1..Len(m) |-> root + i]],
               !.ename = [e \in Elem |-> IF e > root /\ e <= root + Len(m)
                                         THEN m[e - root]
                                         ELSE IF e = root THEN NoAttr ELSE @[e]]]

\* jQuery .clone() of one element: a detached deep copy; the copy is d.n + 1
DomClone(d, e) ==
  LET old == <<e>> \o PreOrder(d, d.kids[e])
      new(x) == d.n + IndexOf(x, old)
  IN [d EXCEPT !.n = d.n + Len(old),
               !.kids = [x \in 0..MaxElem |->
                           IF x > d.n /\ x <= d.n + Len(old)
                           THEN [i \in 1..Len(d.kids[old[x - d.n]]) |-> new(d.kids[old[x - d.n]][i])]
                           ELSE @[x]],
               !.ename = [x \in Elem |->
                           IF x > d.n /\ x <= d.n + Len(old) THEN d.ename[old[x - d.n]] ELSE @[x]]]

\* puts the elements of seq in the place of e; nothing happens when e is detached
DomReplace(d, e, seq) ==
  LET p == ParentNode(d, e)
  IN IF p = -1 THEN d
     ELSE LET i == IndexOf(e, d.kids[p])
              left == SubSeq(d.kids[p], 1, i - 1)
              right == SubSeq(d.kids[p], i + 1, Len(d.kids[p]))
          IN [d EXCEPT !.kids[p] = left \o seq \o right]

\* jQuery .html(markup) of one element
DomSetHtml(d, e, b) ==
  LET d1 == DomParse(DomEmpty(d, e), b)
  IN [d1 EXCEPT !.kids[e] = <<d.n + 1>>]

\* the host page before any view is loaded
PageDom ==
  [EmptyDom EXCEPT !.n = Len(PageMarkup),
                   !.kids[Body] = [i \in 1..Len(PageMarkup) |-> i],
                   !.ename = [e \in Elem |-> IF e <= Len(PageMarkup) THEN PageMarkup[e] ELSE NoAttr]]

(***************************************************************************)
(* View objects.  A jQuery result is [k |-> "jq", els |-> elements]; the   *)
(* plain array _elementForContainer returns for an unset container is      *)
(* [k |-> "array"], and an unset field is [k |-> "undefined"].             *)
(***************************************************************************)
UndefEl == [k |-> "undefined", els |-> <<>>]
ArrayEl == [k |-> "array", els |-> <<>>]
JQ(els) == [k |-> "jq", els |-> els]

NoErr == "none"

\* a view object that has not been constructed yet
\* the tables of 0.1.0 when empty; a target action whose target is NoView has
\* the target undefined
NoOutlets == [o \in OutletNames |-> NoEntry]
NoProperties == [pr \in PropertyNames |-> NoEntry]
NoTargetAction == [target |-> NoEntry, action |-> NoEntry]
NoTargetActions == [ev \in EventNames |-> NoTargetAction]

\* scans holds, for every require() of view constructors that load()'s callback
\* has issued and that is not answered yet, the mount names of the annotated
\* elements the callback found
NoObject ==
  [exists |-> FALSE, name |-> Undef, container |-> Undef, bundle |-> Undef,
   isRootView |-> FALSE, parentView |-> NoView, childViews |-> <<>>,
   containerElement |-> UndefEl, viewElement |-> UndefEl,
   viewDidLoadCalled |-> FALSE,
   outlets |-> NoOutlets, markupProperties |-> NoProperties,
   targetActions |-> NoTargetActions, wasAutomaticallyCreated |-> FALSE,
   scans |-> <<>>]

\* the state the operations work on: S.events collects the notifications an
\* operation fires, S.snap the surface as each of them finds it, and S.err the
\* exception the operation ends with
NoPending == [v \in Views |-> [b \in Bundles |-> 0]]
RECURSIVE SumOver(_, _)
SumOver(f, seq) == IF seq = <<>> THEN 0 ELSE f[Head(seq)] + SumOver(f, Tail(seq))
PendingOf(S, v) == SumOver(S.pending[v], BundleSeq)

Throw(S, e) == [S EXCEPT !.err = e]
Start(vw, d, pn) ==
  [views |-> vw, dom |-> d, pending |-> pn, events |-> <<>>, snap |-> <<>>,
   log |-> <<>>, err |-> NoErr, ret |-> Undef]
Fire(S, kind, v) ==
  [S EXCEPT !.events = Append(@, <<kind, v>>), !.snap = Append(@, S.dom),
            !.log = Append(@, <<kind, v>>)]
\* S.log holds, in order, the notifications fired and the calls of load()
Called(S, op, v) == [S EXCEPT !.log = Append(@, <<op, v>>)]
Request(S, v) == [S EXCEPT !.pending[v][S.views[v].bundle] = @ + 1]

\* jQuery .index(arg) on the .parents() of a set: only the sign is used
ParentsIndex(d, parents, arg) ==
  IF arg.k = "undefined"
  THEN IF parents = <<>> THEN -1
       ELSE IF parents[1] # Body /\ ParentNode(d, parents[1]) = -1 THEN -1 ELSE 0
  ELSE IF arg.els = <<>> THEN -1
       ELSE IndexOf(arg.els[1], parents) - 1

(***************************************************************************)
(* ViewJS 0.2.0 (src/view.js)                                              *)
(***************************************************************************)
isLoaded020(S, v) ==
  S.views[v].containerElement.k # "undefined" /\ S.views[v].viewElement.k # "undefined"

\* m(selector) with a selector
m020(S, v, n) ==
  IF isLoaded020(S, v) THEN JQ(DomFind(S.dom, S.views[v].viewElement.els, n))
  ELSE S.views[v].viewElement

elementForContainer020(S, v) ==
  LET w == S.views[v]
  IN IF w.container = Undef THEN ArrayEl
     ELSE IF w.parentView # NoView /\ isLoaded020(S, w.parentView)
          THEN m020(S, w.parentView, w.container)
          ELSE JQ(DomQuery(S.dom, w.container))

RECURSIVE DomEmptyAll(_, _)
DomEmptyAll(d, els) ==
  IF els = <<>> THEN d ELSE DomEmptyAll(DomEmpty(d, Head(els)), Tail(els))

RECURSIVE DomSetHtmlAll(_, _, _)
DomSetHtmlAll(d, els, b) ==
  IF els = <<>> THEN d ELSE DomSetHtmlAll(DomSetHtml(d, Head(els), b), Tail(els), b)

RECURSIVE unload020(_, _)
RECURSIVE unloadEach020(_, _)
unloadEach020(S, seq) ==
  IF seq = <<>> \/ S.err # NoErr THEN S
  ELSE unloadEach020(unload020(S, Head(seq)), Tail(seq))

unload020(S, v) ==
  LET S1 == IF isLoaded020(S, v)
            THEN LET Sa == unloadEach020(S, S.views[v].childViews)
                 IN IF Sa.err # NoErr THEN Sa ELSE Fire(Sa, "willUnload", v)
            ELSE S
      c == S1.views[v].containerElement
  IN IF S1.err # NoErr THEN S1
     ELSE IF c.k = "array" THEN Throw(S1, "TypeError")
     ELSE [S1 EXCEPT !.dom = IF c.k = "jq" THEN DomEmptyAll(@, c.els) ELSE @,
                     !.views[v].containerElement = UndefEl,
                     !.views[v].viewElement = UndefEl,
                     !.views[v].viewDidLoadCalled = FALSE]

\* the part of load() that runs after self.unload(), from the container lookup
\* to the resource request
loadResolve020(S0, v) ==
  LET S == [S0 EXCEPT !.views[v].containerElement = elementForContainer020(S0, v)]
      w == S.views[v]
      c == w.containerElement
      p == w.parentView
      parents == DomParents(S.dom, c.els)
  IN IF Len(c.els) = 0 THEN Throw(S, "NotFound")
     ELSE IF p # NoView /\ ParentsIndex(S.dom, parents, S.views[p].viewElement) < 0
          THEN Throw(S, "NotDescendant")
     ELSE IF p # NoView /\ S.views[p].viewElement.k = "undefined"
          THEN Throw(S, "TypeError")
     ELSE IF p # NoView
             /\ ParentsIndex(S.dom, parents,
                             JQ(SelectSeq(PreOrder(S.dom, DomChildren(S.dom, S.views[p].viewElement.els)),
                                          LAMBDA e : S.dom.ename[e] # NoAttr))) >= 0
          THEN Throw(S, "Nested")
     ELSE IF Len(DomChildren(S.dom, c.els)) > 0 THEN Throw(S, "Occupied")
     ELSE IF w.bundle = Undef THEN Throw(S, "NoBundle")
     ELSE Request(S, v)

load020(S0, v) ==
  LET S == Called(S0, "load", v)
  IN IF S.views[v].parentView = NoView /\ S.views[v].isRootView = FALSE
     THEN Throw(S, "Detached")
     ELSE LET S1 == unload020(S, v)
          IN IF S1.err # NoErr THEN S1 ELSE loadResolve020(S1, v)

\* a recursion that goes on with the next child after a load() that threw
RECURSIVE loadAll020(_, _)
loadAll020(S, seq) ==
  IF seq = <<>> THEN S
  ELSE LET S1 == load020([S EXCEPT !.err = NoErr], Head(seq))
       IN loadAll020([S1 EXCEPT !.err = IF S.err # NoErr THEN S.err ELSE S1.err], Tail(seq))

RECURSIVE loadEach020(_, _)
loadEach020(S, seq) ==
  IF seq = <<>> \/ S.err # NoErr THEN S
  ELSE loadEach020(load020(S, Head(seq)), Tail(seq))

\* the callback of the resource request load() made for bundle b
loaded020(S, v, b) ==
  LET c == S.views[v].containerElement
  IN IF c.k # "jq" THEN Throw(S, "TypeError")
     ELSE LET d1 == DomSetHtmlAll(S.dom, c.els, b)
              kids == DomChildren(d1, c.els)
              S1 == [S EXCEPT !.dom = d1,
                              !.views[v].viewElement = JQ(IF kids = <<>> THEN <<>> ELSE <<kids[1]>>),
                              !.views[v].viewDidLoadCalled = TRUE]
          IN loadEach020(Fire(S1, "didLoad", v), S1.views[v].childViews)

\* addChildView: S.ret is the view returned (Undef for "no conflict")
\* the lookup without a result
noConflictFor(S, p, container) == NoView

\* the first child of p that declares the mount name container
conflictFor(S, p, container) ==
  LET hits == SelectSeq(S.views[p].childViews,
                        LAMBDA e : S.views[e].container # Undef
                                   /\ S.views[e].container = container)
  IN IF hits = <<>> THEN NoView ELSE hits[1]

conflictingChildView(S, p, c) == conflictFor(S, p, S.views[c].container)

\* addChildView that leaves the loading of the child to the caller
addChildView020Lazy(S, p, c) ==
  LET conflicting == conflictingChildView(S, p, c)
  IN IF conflicting = c THEN [S EXCEPT !.ret = c]
     ELSE IF conflicting # NoView THEN [S EXCEPT !.ret = conflicting]
     ELSE [S EXCEPT !.views[c].parentView = p,
                    !.views[p].childViews = Append(@, c),
                    !.ret = Undef]

addChildView020(S, p, c) ==
  LET conflicting == conflictingChildView(S, p, c)
  IN IF conflicting = c THEN [S EXCEPT !.ret = c]
     ELSE IF conflicting # NoView THEN [S EXCEPT !.ret = conflicting]
     ELSE LET S1 == [S EXCEPT !.views[c].parentView = p,
                              !.views[p].childViews = Append(@, c),
                              !.ret = Undef]
          IN IF S1.views[p].viewDidLoadCalled THEN load020(S1, c) ELSE S1

RECURSIVE removeAllChildViews020(_, _)
RECURSIVE removeAllEach020(_, _)
removeAllEach020(S, seq) ==
  IF seq = <<>> THEN S
  ELSE removeAllEach020(
         [removeAllChildViews020(S, Head(seq)) EXCEPT !.views[Head(seq)].parentView = NoView],
         Tail(seq))

removeAllChildViews020(S, v) ==
  [removeAllEach020(S, S.views[v].childViews) EXCEPT !.views[v].childViews = <<>>]

removeChildView020(S, p, x) ==
  LET i == IndexOf(x, S.views[p].childViews)
  IN IF i = 0 THEN S
     ELSE LET S1 == unload020(S, x)
          IN IF S1.err # NoErr THEN S1
             ELSE LET S2 == removeAllChildViews020(S1, x)
                  IN [S2 EXCEPT !.views[x].parentView = NoView,
                                !.views[p].childViews = RemoveAt(@, i)]

removeFromParentView020(S, v) ==
  IF S.views[v].parentView = NoView THEN Throw(S, "NoParent")
  ELSE LET S1 == removeChildView020(S, S.views[v].parentView, v)
       IN IF S1.err # NoErr THEN S1 ELSE [S1 EXCEPT !.views[v].parentView = NoView]

\* new View({isRootView, bundle, container, parentView})
View020(S, v, isRootView, bundle, container, parentView) ==
  LET S1 == [S EXCEPT !.views[v] = [NoObject EXCEPT !.exists = TRUE,
                                                    !.isRootView = isRootView,
                                                    !.bundle = bundle,
                                                    !.container = container,
                                                    !.parentView = parentView]]
  IN IF parentView # NoView THEN addChildView020(S1, parentView, v) ELSE S1

(***************************************************************************)
(* ViewJS 0.2.1 (src/unnamed/part_002)                                     *)
(***************************************************************************)
isLoaded021(S, v) ==
  /\ S.views[v].viewElement.k = "jq" /\ Len(S.views[v].viewElement.els) > 0
  /\ S.views[v].containerElement.k = "jq" /\ Len(S.views[v].containerElement.els) > 0

\* jQuery .replaceWith(seq) of a set of elements: every element that has a
\* parent is replaced; all but the last get a copy of seq, the last gets seq
RECURSIVE DomReplaceAll(_, _, _)
DomReplaceAll(d, targets, seq) ==
  IF targets = <<>> THEN d
  ELSE IF ParentNode(d, Head(targets)) = -1 THEN DomReplaceAll(d, Tail(targets), seq)
  ELSE IF Tail(targets) = <<>> THEN DomReplace(d, Head(targets), seq)
  ELSE LET RECURSIVE copies(_, _, _)
           copies(dd, rest, acc) ==
             IF rest = <<>> THEN [d |-> dd, ids |-> acc]
             ELSE copies(DomClone(dd, Head(rest)), Tail(rest), Append(acc, dd.n + 1))
           c == copies(d, seq, <<>>)
       IN DomReplaceAll(DomReplace(c.d, Head(targets), c.ids), Tail(targets), seq)

RECURSIVE DomDetachAll(_, _)
DomDetachAll(d, els) ==
  IF els = <<>> THEN d ELSE DomDetachAll(DomDetach(d, Head(els)), Tail(els))

\* jQuery .clone() of a set of elements
RECURSIVE DomCloneAll(_, _, _)
DomCloneAll(d, els, acc) ==
  IF els = <<>> THEN [d |-> d, ids |-> acc]
  ELSE DomCloneAll(DomClone(d, Head(els)), Tail(els), Append(acc, d.n + 1))

RECURSIVE unload021(_, _)
RECURSIVE unloadEach021(_, _)
unloadEach021(S, seq) ==
  IF seq = <<>> \/ S.err # NoErr THEN S
  ELSE unloadEach021(unload021(S, Head(seq)), Tail(seq))

\* unload() that notifies before it unloads the child views
unload021NotifyFirst(S, v) ==
  IF isLoaded021(S, v)
  THEN LET Sa == unloadEach021(Fire(S, "willUnload", v), S.views[v].childViews)
           w == Sa.views[v]
       IN IF Sa.err # NoErr THEN Sa
          ELSE [Sa EXCEPT !.dom = DomReplaceAll(DomDetachAll(@, w.containerElement.els),
                                                w.viewElement.els, w.containerElement.els),
                          !.views[v].containerElement = UndefEl,
                          !.views[v].viewElement = UndefEl]
  ELSE S

unload021(S, v) ==
  IF isLoaded021(S, v)
  THEN LET Sa == unloadEach021(S, S.views[v].childViews)
       IN IF Sa.err # NoErr THEN Sa
          ELSE LET Sb == Fire(Sa, "willUnload", v)
                   w == Sb.views[v]
               IN [Sb EXCEPT !.dom = DomReplaceAll(DomDetachAll(@, w.containerElement.els),
                                                   w.viewElement.els, w.containerElement.els),
                             !.views[v].containerElement = UndefEl,
                             !.views[v].viewElement = UndefEl]
  ELSE S

\* $(selector) scoped to the root element of a loaded view
scoped021(S, v, n) ==
  IF isLoaded021(S, v) THEN JQ(DomFind(S.dom, S.views[v].viewElement.els, n)) ELSE UndefEl

\* the part of load() that runs after self.unload()
loadResolve021(S0, v) ==
  LET p == S0.views[v].parentView
      n == S0.views[v].name
  IN IF p # NoView /\ ~isLoaded021(S0, p) THEN Throw(S0, "NotLoaded")
     ELSE
       LET S == [S0 EXCEPT !.views[v].containerElement =
                              IF p # NoView THEN scoped021(S0, p, n) ELSE JQ(DomQuery(S0.dom, n))]
           c == S.views[v].containerElement
           parents == DomParents(S.dom, c.els)
       IN IF Len(c.els) = 0 THEN Throw(S, "NotFound")
          ELSE IF Len(DomChildren(S.dom, c.els)) > 0 THEN Throw(S, "Occupied")
          ELSE IF p # NoView /\ ParentsIndex(S.dom, parents, S.views[p].viewElement) < 0
               THEN Throw(S, "NotDescendant")
          ELSE IF p # NoView /\ ParentsIndex(S.dom, parents, JQ(<<>>)) >= 0
               THEN Throw(S, "Nested")
          ELSE Request(S, v)

\* load() without the check that a view outside a hierarchy must be a root view
load021Unchecked(S, v) ==
  LET w == S.views[v]
  IN IF w.parentView # NoView /\ ~isLoaded021(S, w.parentView) THEN Throw(S, "ParentNotLoaded")
     ELSE IF w.name = Undef THEN Throw(S, "NoName")
     ELSE IF w.bundle = Undef THEN Throw(S, "NoBundle")
     ELSE LET S1 == unload021(S, v)
          IN IF S1.err # NoErr THEN S1 ELSE loadResolve021(S1, v)

\* load() that does not unload first
load021NoUnload(S, v) ==
  LET w == S.views[v]
  IN IF w.parentView # NoView /\ ~isLoaded021(S, w.parentView) THEN Throw(S, "ParentNotLoaded")
     ELSE IF w.name = Undef THEN Throw(S, "NoName")
     ELSE IF w.bundle = Undef THEN Throw(S, "NoBundle")
     ELSE IF ~w.isRootView /\ w.parentView = NoView THEN Throw(S, "Detached")
     ELSE loadResolve021(S, v)

load021(S0, v) ==
  LET S == Called(S0, "load", v)
      w == S.views[v]
  IN IF w.parentView # NoView /\ ~isLoaded021(S, w.parentView) THEN Throw(S, "ParentNotLoaded")
     ELSE IF w.name = Undef THEN Throw(S, "NoName")
     ELSE IF w.bundle = Undef THEN Throw(S, "NoBundle")
     ELSE IF ~w.isRootView /\ w.parentView = NoView THEN Throw(S, "Detached")
     ELSE LET S1 == unload021(S, v)
          IN IF S1.err # NoErr THEN S1 ELSE loadResolve021(S1, v)

\* a recursion that loads no child
loadNone021(S, seq) == S

RECURSIVE loadEach021(_, _)
loadEach021(S, seq) ==
  IF seq = <<>> \/ S.err # NoErr THEN S
  ELSE loadEach021(load021(S, Head(seq)), Tail(seq))

\* the callback with the children loaded before the view is notified
loaded021ChildrenFirst(S, v, b) ==
  LET c == S.views[v].containerElement
      cl == DomCloneAll(S.dom, c.els, <<>>)
      html == cl.d.n + 1
      d1 == DomReplaceAll(DomParse(cl.d, b), c.els, <<html>>)
      S2 == [S EXCEPT !.dom = d1,
                      !.views[v].containerElement = JQ(cl.ids),
                      !.views[v].viewElement = JQ(<<html>>)]
  IN IF c.k # "jq" \/ cl.ids = <<>> THEN Throw(S, "TypeError")
     ELSE LET Sa == loadEach021(S2, S2.views[v].childViews)
          IN IF Sa.err # NoErr THEN Sa ELSE Fire(Sa, "didLoad", v)

\* the callback of the resource request load() made for bundle b
loaded021(S, v, b) ==
  LET c == S.views[v].containerElement
      S1 == [S EXCEPT !.views[v].viewElement = c]
  IN IF c.k # "jq" THEN Throw(S1, "TypeError")
     ELSE LET cl == DomCloneAll(S.dom, c.els, <<>>)
              html == cl.d.n + 1
              d1 == DomReplaceAll(DomParse(cl.d, b), c.els, <<html>>)
              S2 == [S EXCEPT !.dom = d1,
                              !.views[v].containerElement = JQ(cl.ids),
                              !.views[v].viewElement = JQ(<<html>>)]
          IN IF cl.ids = <<>> THEN Throw(S2, "TypeError")
             ELSE LET S3 == [S2 EXCEPT !.dom.ename[html] = d1.ename[cl.ids[1]]]
                  IN loadEach021(Fire(S3, "didLoad", v), S3.views[v].childViews)

\* the property setters
setName021(S, v, name) ==
  IF isLoaded021(S, v) THEN Throw(S, "Loaded") ELSE [S EXCEPT !.views[v].name = name]

setBundle021(S, v, bundle) ==
  IF isLoaded021(S, v) THEN Throw(S, "Loaded") ELSE [S EXCEPT !.views[v].bundle = bundle]

setIsRootView021(S, v, isRootView) ==
  IF isLoaded021(S, v) THEN Throw(S, "Loaded") ELSE [S EXCEPT !.views[v].isRootView = isRootView]

setParentView021(S, v, parentView) ==
  IF isLoaded021(S, v) THEN Throw(S, "Loaded")
  ELSE IF S.views[v].isRootView THEN S
  ELSE IF parentView = NoView THEN [S EXCEPT !.views[v].parentView = NoView]
  ELSE [S EXCEPT !.views[v].parentView = parentView,
                 !.views[parentView].childViews = Append(@, v)]

RECURSIVE setParents021(_, _, _)
setParents021(S, seq, p) ==
  IF seq = <<>> THEN S
  ELSE setParents021([S EXCEPT !.views[Head(seq)].parentView = p], Tail(seq), p)

\* the childViews setter without the check that the view is not loaded
setChildViews021Unguarded(S, v, childViews) ==
  LET S1 == setParents021(S, S.views[v].childViews, NoView)
      S2 == setParents021(S1, childViews, v)
  IN [S2 EXCEPT !.views[v].childViews = childViews]

setChildViews021(S, v, childViews) ==
  IF isLoaded021(S, v) THEN Throw(S, "Loaded")
  ELSE LET S1 == setParents021(S, S.views[v].childViews, NoView)
           S2 == setParents021(S1, childViews, v)
       IN [S2 EXCEPT !.views[v].childViews = childViews]

\* new View({name, bundle, isRootView, parentView, childViews})
View021(S, v, name, bundle, isRootView, parentView, childViews) ==
  LET S1 == [S EXCEPT !.views[v] = [NoObject EXCEPT !.exists = TRUE,
                                                    !.name = name,
                                                    !.bundle = bundle,
                                                    !.isRootView = isRootView]]
  IN setChildViews021(setParentView021(S1, v, parentView), v, childViews)

(***************************************************************************)
(* ViewJS 0.1.0 (src/view.js from line 377).  isLoaded, m,                 *)
(* _elementForContainer and the checks load() makes between self.unload()  *)
(* and require() are those of 0.2.0 word for word, so the operators of     *)
(* 0.2.0 stand for them.                                                   *)
(***************************************************************************)
RECURSIVE unload010(_, _)
RECURSIVE unloadEach010(_, _)
unloadEach010(S, seq) ==
  IF seq = <<>> \/ S.err # NoErr THEN S
  ELSE unloadEach010(unload010(S, Head(seq)), Tail(seq))

\* unload that also forgets the outlets of the view
unload010Forgetting(S, v) ==
  [S EXCEPT !.views[v].containerElement = UndefEl,
            !.views[v].viewElement = UndefEl,
            !.views[v].markupProperties = NoProperties,
            !.views[v].viewDidLoadCalled = FALSE,
            !.views[v].outlets = NoOutlets]

unload010(S, v) ==
  LET S1 == IF isLoaded020(S, v)
            THEN LET Sa == unloadEach010(S, S.views[v].childViews)
                 IN IF Sa.err # NoErr THEN Sa ELSE Fire(Sa, "willUnload", v)
            ELSE S
      c == S1.views[v].containerElement
  IN IF S1.err # NoErr THEN S1
     ELSE IF c.k = "array" THEN Throw(S1, "TypeError")
     ELSE [S1 EXCEPT !.dom = IF c.k = "jq" THEN DomEmptyAll(@, c.els) ELSE @,
                     !.views[v].containerElement = UndefEl,
                     !.views[v].viewElement = UndefEl,
                     !.views[v].markupProperties = NoProperties,
                     !.views[v].viewDidLoadCalled = FALSE]

load010(S0, v) ==
  LET S == Called(S0, "load", v)
  IN IF S.views[v].parentView = NoView /\ S.views[v].isRootView = FALSE
     THEN Throw(S, "Detached")
     ELSE LET S1 == unload010(S, v)
          IN IF S1.err # NoErr THEN S1 ELSE loadResolve020(S1, v)

RECURSIVE loadEach010(_, _)
loadEach010(S, seq) ==
  IF seq = <<>> \/ S.err # NoErr THEN S
  ELSE loadEach010(load010(S, Head(seq)), Tail(seq))

addChildView010(S, p, c) ==
  LET conflicting == conflictingChildView(S, p, c)
  IN IF conflicting = c THEN [S EXCEPT !.ret = c]
     ELSE IF conflicting # NoView THEN [S EXCEPT !.ret = conflicting]
     ELSE LET S1 == [S EXCEPT !.views[c].parentView = p,
                              !.views[p].childViews = Append(@, c),
                              !.ret = Undef]
          IN IF S1.views[p].viewDidLoadCalled THEN load010(S1, c) ELSE S1

RECURSIVE removeAllChildViews010(_, _)
RECURSIVE removeAllEach010(_, _)
removeAllEach010(S, seq) ==
  IF seq = <<>> THEN S
  ELSE removeAllEach010(
         [removeAllChildViews010(S, Head(seq)) EXCEPT !.views[Head(seq)].parentView = NoView],
         Tail(seq))

removeAllChildViews010(S, v) ==
  [removeAllEach010(S, S.views[v].childViews) EXCEPT !.views[v].childViews = <<>>,
                                                      !.views[v].outlets = NoOutlets]

\* removeChildView that leaves the outlets of the parent as they are
removeChildView010KeepingOutlets(S, p, x) ==
  LET i == IndexOf(x, S.views[p].childViews)
  IN IF i = 0 THEN S
     ELSE LET S1 == unload010(S, x)
          IN IF S1.err # NoErr THEN S1
             ELSE LET S2 == removeAllChildViews010(S1, x)
                  IN [S2 EXCEPT !.views[x].parentView = NoView,
                                !.views[p].childViews = RemoveAt(@, i)]

removeChildView010(S, p, x) ==
  LET i == IndexOf(x, S.views[p].childViews)
  IN IF i = 0 THEN S
     ELSE LET S1 == unload010(S, x)
          IN IF S1.err # NoErr THEN S1
             ELSE LET S2 == removeAllChildViews010(S1, x)
                  IN [S2 EXCEPT !.views[x].parentView = NoView,
                                !.views[p].childViews = RemoveAt(@, i),
                                !.views[p].outlets =
                                   [o \in OutletNames |-> IF @[o] = x THEN Undef ELSE @[o]]]

removeFromParentView010(S, v) ==
  IF S.views[v].parentView = NoView THEN Throw(S, "NoParent")
  ELSE LET S1 == removeChildView010(S, S.views[v].parentView, v)
       IN IF S1.err # NoErr THEN S1 ELSE [S1 EXCEPT !.views[v].parentView = NoView]

\* new View({isRootView, bundle, container, parentView})
View010(S, v, isRootView, bundle, container, parentView) ==
  LET S1 == [S EXCEPT !.views[v] = [NoObject EXCEPT !.exists = TRUE,
                                                    !.isRootView = isRootView,
                                                    !.bundle = bundle,
                                                    !.container = container,
                                                    !.parentView = parentView]]
  IN IF parentView # NoView THEN addChildView010(S1, parentView, v) ELSE S1

\* the annotations read with the view itself as the target of the events
fetchAttributed010ToSelf(S, v) ==
  LET c == S.views[v].containerElement
  IN IF c.k # "jq" \/ c.els = <<>> THEN S
     ELSE LET n == S.dom.ename[c.els[1]]
          IN [S EXCEPT
                !.views[v].markupProperties =
                   [pr \in PropertyNames |->
                      IF PropertyAttr(n, pr) # Undef THEN PropertyAttr(n, pr) ELSE @[pr]],
                !.views[v].targetActions =
                   [ev \in EventNames |->
                      IF EventAttr(n, ev) # Undef
                      THEN [target |-> v, action |-> EventAttr(n, ev)]
                      ELSE @[ev]]]

\* _fetchAttributedPropertiesFromViewContainer and
\* _fetchAttributedTargetActionEventsFromViewContainer: .data() reads the
\* attributes of the first container element
fetchAttributed010(S, v) ==
  LET c == S.views[v].containerElement
  IN IF ~isLoaded020(S, v) \/ c.els = <<>> THEN S
     ELSE LET n == S.dom.ename[c.els[1]]
          IN [S EXCEPT
                !.views[v].markupProperties =
                   [pr \in PropertyNames |->
                      IF PropertyAttr(n, pr) # Undef THEN PropertyAttr(n, pr) ELSE @[pr]],
                !.views[v].targetActions =
                   [ev \in EventNames |->
                      IF EventAttr(n, ev) # Undef
                      THEN [target |-> S.views[v].parentView, action |-> EventAttr(n, ev)]
                      ELSE @[ev]]]

\* self.m("[data-load-view]"): the mount names of the annotated elements
\* inside the view's own markup, in document order
scan010(S, v) ==
  LET els == SelectSeq(PreOrder(S.dom, DomChildren(S.dom, S.views[v].viewElement.els)),
                       LAMBDA e : LoadView(S.dom.ename[e]) # Undef)
  IN [i \in 1..Len(els) |-> S.dom.ename[els[i]]]

\* the end of the callbacks without the loading of the child views
finish010Alone(S, v) ==
  Fire([S EXCEPT !.views[v].viewDidLoadCalled = TRUE], "didLoad", v)

\* the end of both callbacks: notify, then load the child views
finish010(S, v) ==
  loadEach010(Fire([S EXCEPT !.views[v].viewDidLoadCalled = TRUE], "didLoad", v),
              S.views[v].childViews)

\* the callback of the resource request load() made for bundle b
loaded010(S, v, b) ==
  LET c == S.views[v].containerElement
  IN IF c.k # "jq" THEN Throw(S, "TypeError")
     ELSE LET d1 == DomSetHtmlAll(S.dom, c.els, b)
              kids == DomChildren(d1, c.els)
              S1 == [S EXCEPT !.dom = d1,
                              !.views[v].viewElement = JQ(IF kids = <<>> THEN <<>> ELSE <<kids[1]>>)]
              S2 == fetchAttributed010(S1, v)
              found == scan010(S2, v)
          IN IF found # <<>> THEN [S2 EXCEPT !.views[v].scans = Append(@, found)]
             ELSE finish010(S2, v)

\* the identity the next view object constructed gets
FreeView(vw) ==
  LET free == SelectSeq(ViewSeq, LAMBDA x : ~vw[x].exists)
  IN IF free = <<>> THEN NoView ELSE free[1]

PoolErr == "no view identity left"

\* one annotated element, with the outlet connected to the child that is in
\* the way
create010Connecting(S, v, n) ==
  LET x == FreeView(S.views)
      conflicting == conflictFor(S, v, n)
  IN IF conflicting # NoView
     THEN IF OutletAttr(n) = Undef THEN S
          ELSE [S EXCEPT !.views[v].outlets[OutletAttr(n)] = conflicting]
     ELSE IF x = NoView THEN Throw(S, PoolErr)
     ELSE LET S1 == [S EXCEPT !.views[x] = [NoObject EXCEPT !.exists = TRUE,
                                                              !.container = n,
                                                              !.bundle = LoadBundle(n),
                                                              !.wasAutomaticallyCreated = TRUE]]
              S2 == addChildView010(S1, v, x)
          IN IF S2.err # NoErr \/ OutletAttr(n) = Undef THEN S2
             ELSE [S2 EXCEPT !.views[v].outlets[OutletAttr(n)] = x]

\* one annotated element in the callback of require(view constructors).  A
\* view constructed for a mount name that a child of v declares already is
\* returned the conflict by addChildView and is dropped at once, whether the
\* child was created automatically or not; it gets no identity here.
create010(S, v, n) ==
  LET x == FreeView(S.views)
  IN IF conflictFor(S, v, n) # NoView THEN S
     ELSE IF x = NoView THEN Throw(S, PoolErr)
     ELSE LET S1 == [S EXCEPT !.views[x] = [NoObject EXCEPT !.exists = TRUE,
                                                              !.container = n,
                                                              !.bundle = LoadBundle(n),
                                                              !.wasAutomaticallyCreated = TRUE]]
              S2 == addChildView010(S1, v, x)
          IN IF S2.err # NoErr \/ OutletAttr(n) = Undef THEN S2
             ELSE [S2 EXCEPT !.views[v].outlets[OutletAttr(n)] = x]

\* a callback that creates no view
createNone010(S, v, found) == S

RECURSIVE createEach010(_, _, _)
createEach010(S, v, found) ==
  IF found = <<>> \/ S.err # NoErr THEN S
  ELSE createEach010(create010(S, v, Head(found)), v, Tail(found))

\* the callback of the i-th require(view constructors) of v in flight
constructed010(S0, v, i) ==
  LET S == [S0 EXCEPT !.views[v].scans = RemoveAt(@, i)]
      S1 == createEach010(S, v, S0.views[v].scans[i])
  IN IF S1.err # NoErr THEN S1 ELSE finish010(S1, v)

(***************************************************************************)
(* The state machine.                                                      *)
(***************************************************************************)
Versions == {"0.2.0", "0.2.1"}
Versions010 == {"0.1.0"}

Current == Start(views, dom, pending)
\* the state an operation leaves, as the next operation finds it
Then(S) == Start(S.views, S.dom, S.pending)

\* the operations of the library version under test
isLoaded(S, v) == IF ver = "0.2.1" THEN isLoaded021(S, v) ELSE isLoaded020(S, v)
load(S, v) ==
  IF ver = "0.2.0" THEN load020(S, v)
  ELSE IF ver = "0.2.1" THEN load021(S, v) ELSE load010(S, v)
unload(S, v) ==
  IF ver = "0.2.0" THEN unload020(S, v)
  ELSE IF ver = "0.2.1" THEN unload021(S, v) ELSE unload010(S, v)
\* the resource loader answers v's request for bundle b: load()'s callback runs
answer(S0, v, b) ==
  LET S == [S0 EXCEPT !.pending[v][b] = @ - 1]
  IN IF ver = "0.2.0" THEN loaded020(S, v, b)
     ELSE IF ver = "0.2.1" THEN loaded021(S, v, b) ELSE loaded010(S, v, b)

\* renumbers the elements in use (the page, then the detached trees the view
\* objects still refer to) as 1..n and forgets all others
ViewRefs(vw) ==
  Flatten([i \in 1..Len(ViewSeq) |->
             vw[ViewSeq[i]].containerElement.els \o vw[ViewSeq[i]].viewElement.els])

Renumber(S, order) ==
  LET d == S.dom
      renum(seq) == [i \in 1..Len(seq) |-> IndexOf(seq[i], order)]
  IN [S EXCEPT
        !.dom = [n |-> Len(order),
                 kids |-> [x \in 0..MaxElem |->
                             IF x = Body THEN renum(d.kids[Body])
                             ELSE IF x <= Len(order) THEN renum(d.kids[order[x]])
                             ELSE <<>>],
                 ename |-> [x \in Elem |-> IF x <= Len(order) THEN d.ename[order[x]] ELSE NoAttr]],
        !.views = [v \in Views |->
                     [S.views[v] EXCEPT !.containerElement.els = renum(@),
                                        !.viewElement.els = renum(@)]]]

Normalize(S) ==
  IF S.dom = dom /\ ViewRefs(S.views) = ViewRefs(views) THEN S
  ELSE
  LET d == S.dom
      refs == ViewRefs(S.views)
      tops == SelectSeq(Uniq([i \in 1..Len(refs) |-> TreeTop(d, refs[i])]),
                        LAMBDA t : t # Body)
  IN CHOOSE N \in {Renumber(S, order) : order \in {PreOrder(d, d.kids[Body]) \o PreOrder(d, tops)}} : TRUE

\* the views reachable from v along children collections
Below(vw, v) ==
  LET step(X) == X \cup UNION {Range(vw[x].childViews) : x \in X}
  IN step(step(step(Range(vw[v].childViews))))

\* requests of view constructors in flight
ScansOf(vw) == Len(vw["r"].scans) + Len(vw["c"].scans) + Len(vw["d"].scans)

Bounded(S) ==
  /\ PendingOf(S, "r") + PendingOf(S, "c") + PendingOf(S, "d") + ScansOf(S.views)
       <= MaxPending
  /\ S.err # PoolErr
  /\ \A v \in Views : Len(S.views[v].childViews) <= MaxKids
  /\ \A v \in Views : v \notin Below(S.views, v)

(***************************************************************************)
(* The notification channels of 0.2.1: every view has, for did-load and    *)
(* for will-unload, a jQuery $.Callbacks("unique memory") list.  "unique"  *)
(* keeps a function at most once in the list; "memory" keeps the argument  *)
(* of the last fire and calls a function added later with it at once.      *)
(* The argument is always the view itself, so memory is a flag.            *)
(*                                                                         *)
(* The lists are followed only in behaviours that start with obs.mode =    *)
(* "subs", the ones in which the application subscribes.  obs is the       *)
(* observer of the model:                                                  *)
(*   heard  the subscriber calls the last step made, as <<kind, view, f>>, *)
(*   told   the notifications the last step fired, when mode = "subs",     *)
(*   phase  the kind of the last notification of each view, and            *)
(*   ok     whether the notifications of the last step alternated with     *)
(*          those before, per view, starting with did-load; the last two   *)
(*          are followed when mode = "phase".                              *)
(***************************************************************************)
Subscribers == {"f", "g"}
Channels == {"didLoad", "willUnload"}
NoCallbacks == [v \in Views |-> [ch \in Channels |-> [list |-> <<>>, memory |-> FALSE]]]
NoPhase == [v \in Views |-> "none"]
NoneFired == [v \in Views |-> 0]
Unobserved ==
  [mode |-> "off", heard |-> <<>>, told |-> <<>>, phase |-> NoPhase, ok |-> TRUE,
   root |-> NoView, answers |-> 0, fired |-> NoneFired]

\* how often did-load was fired for v among the notifications events
DidLoads(events, v) ==
  Cardinality({i \in 1..Len(events) : events[i] = <<"didLoad", v>>})

\* a fire that forgets the functions it has called
fireAndForget(cb, hd, kind, v) ==
  [cb |-> [cb EXCEPT ![v][kind].memory = TRUE, ![v][kind].list = <<>>],
   heard |-> hd \o [i \in 1..Len(cb[v][kind].list) |-> <<kind, v, cb[v][kind].list[i]>>]]

\* callbacks.fire(view): calls every function of the list in order
fire(cb, hd, kind, v) ==
  [cb |-> [cb EXCEPT ![v][kind].memory = TRUE],
   heard |-> hd \o [i \in 1..Len(cb[v][kind].list) |-> <<kind, v, cb[v][kind].list[i]>>]]

\* the fires of the notifications an operation made, in order
RECURSIVE Deliver(_, _, _)
Deliver(cb, hd, events) ==
  IF events = <<>> THEN [cb |-> cb, heard |-> hd]
  ELSE LET r == fire(cb, hd, Head(events)[1], Head(events)[2])
       IN Deliver(r.cb, r.heard, Tail(events))

\* callbacks.add(f), reached through onViewDidLoad.subscribe(f)
add(cb, kind, v, f) ==
  LET c == cb[v][kind]
      isNew == \A i \in 1..Len(c.list) : c.list[i] # f
  IN [cb |-> IF isNew THEN [cb EXCEPT ![v][kind].list = Append(@, f)] ELSE cb,
      heard |-> IF isNew /\ c.memory THEN << <<kind, v, f>> >> ELSE <<>>]

\* callbacks.remove(f), reached through onViewDidLoad.unsubscribe(f)
remove(cb, kind, v, f) ==
  [cb EXCEPT ![v][kind].list = SelectSeq(@, LAMBDA g : g # f)]

\* did-load and will-unload of one view alternate, did-load first
RECURSIVE Alternate(_, _)
Alternate(ph, events) ==
  IF events = <<>> THEN [phase |-> ph, ok |-> TRUE]
  ELSE LET kind == Head(events)[1]
           v == Head(events)[2]
           fits == IF kind = "didLoad" THEN ph[v] # "didLoad" ELSE ph[v] = "didLoad"
           rest == Alternate([ph EXCEPT ![v] = kind], Tail(events))
       IN [phase |-> rest.phase, ok |-> fits /\ rest.ok]

\* what the observer records of an operation that left S
Observe(S) ==
  IF obs.mode = "subs"
  THEN LET r == Deliver(callbacks, <<>>, S.events)
       IN /\ callbacks' = r.cb
          /\ obs' = [obs EXCEPT !.heard = r.heard, !.told = S.events]
  ELSE IF obs.mode = "phase"
  THEN LET r == Alternate(obs.phase, S.events)
       IN /\ obs' = [obs EXCEPT !.phase = r.phase, !.ok = r.ok]
          /\ UNCHANGED callbacks
  ELSE IF obs.mode = "live"
  THEN /\ obs' = [obs EXCEPT !.answers = @ + 1,
                              !.fired = [v \in Views |-> @[v] + DidLoads(S.events, v)]]
       /\ UNCHANGED callbacks
  ELSE UNCHANGED <<callbacks, obs>>

\* A call that leaves the program's state as it was leaves no trace; any other
\* call is recorded in last with what it threw, returned and fired.
Step(S0, op, v, arg) ==
  \E S \in {S0} :
    /\ Bounded(S)
    /\ \E N \in {Normalize(S)} :
        /\ views' = N.views
        /\ dom' = N.dom
        /\ pending' = S.pending
        /\ last' = IF N.views = views /\ N.dom = dom /\ S.pending = pending
                   THEN last
                   ELSE [op |-> op, v |-> v, arg |-> arg, err |-> S.err, ret |-> S.ret,
                         events |-> S.events]
    /\ Observe(S)
    /\ UNCHANGED <<ver, app>>

\* the same without the record of the call
Commit(S0) ==
  \E S \in {S0} :
    /\ Bounded(S)
    /\ \E N \in {Normalize(S)} :
        /\ views' = N.views
        /\ dom' = N.dom
        /\ pending' = S.pending
    /\ Observe(S)
    /\ UNCHANGED <<ver, app, last>>

Exists(v) == views[v].exists

\* view objects are constructed in the order of ViewSeq
NextNew(v) ==
  \E i \in 1..Len(ViewSeq) :
    /\ ViewSeq[i] = v
    /\ ~Exists(v)
    /\ \A j \in 1..(i - 1) : Exists(ViewSeq[j])

Init ==
  /\ ver \in Versions
  /\ app \in Apps
  /\ views = [v \in Views |-> NoObject]
  /\ dom = PageDom
  /\ pending = NoPending
  /\ last = [op |-> "init", v |-> NoView, arg |-> Undef, err |-> NoErr, ret |-> Undef,
             events |-> <<>>]
  /\ callbacks = NoCallbacks
  /\ obs = Unobserved

NewView020(v, parentView) ==
  /\ ver = "0.2.0"
  /\ NextNew(v)
  /\ parentView # NoView => Exists(parentView)
  /\ Step(View020(Current, v, RootChoice(app, v), BundleChoice(app, v), NameChoice(app, v),
                  parentView), "new", v, parentView)

NewView021(v, parentView) ==
  /\ ver = "0.2.1"
  /\ NextNew(v)
  /\ parentView # NoView => Exists(parentView)
  /\ Step(View021(Current, v, NameChoice(app, v), BundleChoice(app, v), RootChoice(app, v),
                  parentView, <<>>), "new", v, parentView)

Load(v) ==
  /\ Exists(v)
  /\ Step(load(Current, v), "load", v, Undef)

Unload(v) ==
  /\ Exists(v)
  /\ Step(unload(Current, v), "unload", v, Undef)

\* elements the callback creates at most
CallbackNeed(v, b) ==
  LET els == views[v].containerElement.els
  IN Len(els) * (1 + Len(Markup(b)))
       + (IF ver = "0.2.1" THEN Len(els) + Len(PreOrder(dom, DomChildren(dom, els))) ELSE 0)

Answerable(v, b) == pending[v][b] > 0 /\ dom.n + CallbackNeed(v, b) <= MaxElem

Loaded(v, b) ==
  /\ Answerable(v, b)
  /\ Step(answer(Current, v, b), "loaded", v, b)

AddChildView(p, c) ==
  /\ ver = "0.2.0"
  /\ Exists(p) /\ Exists(c)
  /\ p = OwnerChoice(app, c)
  /\ p \notin Below(views, c) \cup {c}
  /\ Step(addChildView020(Current, p, c), "addChildView", p, c)

RemoveChildView(p, c) ==
  /\ ver = "0.2.0"
  /\ Exists(p) /\ Exists(c)
  /\ p = OwnerChoice(app, c)
  /\ Step(removeChildView020(Current, p, c), "removeChildView", p, c)

RemoveAllChildViews(v) ==
  /\ ver = "0.2.0"
  /\ Exists(v)
  /\ Step(removeAllChildViews020(Current, v), "removeAllChildViews", v, Undef)

RemoveFromParentView(v) ==
  /\ ver = "0.2.0"
  /\ Exists(v)
  /\ Step(removeFromParentView020(Current, v), "removeFromParentView", v, Undef)

SetParentView(v, parentView) ==
  /\ ver = "0.2.1"
  /\ Exists(v)
  /\ parentView # NoView => Exists(parentView) /\ parentView \notin Below(views, v) \cup {v}
  /\ Step(setParentView021(Current, v, parentView), "setParentView", v, parentView)

SetChildViews(v, childViews) ==
  /\ ver = "0.2.1"
  /\ Exists(v)
  /\ \A c \in Range(childViews) : Exists(c) /\ v \notin Below(views, c) \cup {c}
  /\ Step(setChildViews021(Current, v, childViews), "setChildViews", v, Undef)

Next ==
  \/ \E v \in Views : \E p \in ParentChoices(app, v) : NewView020(v, p)
  \/ \E v \in Views : \E p \in ParentChoices(app, v) : NewView021(v, p)
  \/ \E v \in Views : Load(v)
  \/ \E v \in Views : Unload(v)
  \/ \E v \in Views, b \in Bundles : Loaded(v, b)
  \/ \E p \in Views, c \in Views : AddChildView(p, c)
  \/ \E p \in Views, c \in Views : RemoveChildView(p, c)
  \/ \E v \in Views : RemoveAllChildViews(v)
  \/ \E v \in Views : RemoveFromParentView(v)
  \/ \E v \in Views : \E p \in ParentChoices(app, v) : SetParentView(v, p)
  \/ \E v \in Views : \E k \in KidChoices(app, v) : SetChildViews(v, k)

Spec == Init /\ [][Next]_vars

\* the same calls made by the application "nest"
InitNest ==
  /\ ver \in Versions
  /\ app \in AppsNest
  /\ views = [v \in Views |-> NoObject]
  /\ dom = PageDom
  /\ pending = NoPending
  /\ last = [op |-> "init", v |-> NoView, arg |-> Undef, err |-> NoErr, ret |-> Undef,
             events |-> <<>>]
  /\ callbacks = NoCallbacks
  /\ obs = Unobserved

SpecNest == InitNest /\ [][Next]_vars

(***************************************************************************)
(* The state machine of 0.1.0.                                             *)
(***************************************************************************)
Init010 ==
  /\ ver \in Versions010
  /\ app \in Apps010
  /\ views = [v \in Views |-> NoObject]
  /\ dom = PageDom
  /\ pending = NoPending
  /\ last = [op |-> "init", v |-> NoView, arg |-> Undef, err |-> NoErr, ret |-> Undef,
             events |-> <<>>]
  /\ callbacks = NoCallbacks
  /\ obs = Unobserved

NewView010(v, parentView) ==
  /\ ver = "0.1.0"
  /\ v \in Constructs(app)
  /\ v = FreeView(views)
  /\ parentView \in ParentChoices(app, v)
  /\ parentView # NoView => Exists(parentView)
  /\ Commit(View010(Current, v, RootChoice(app, v), BundleChoice(app, v), NameChoice(app, v),
                  parentView))

\* the resource loader answers the i-th request of v for view constructors
Constructed(v, i) ==
  /\ ver = "0.1.0"
  /\ i \in 1..Len(views[v].scans)
  /\ Commit(constructed010(Current, v, i))

RemoveChildView010(p, c) ==
  /\ ver = "0.1.0"
  /\ Exists(p) /\ Exists(c)
  /\ Commit(removeChildView010(Current, p, c))

RemoveFromParentView010(v) ==
  /\ ver = "0.1.0"
  /\ Exists(v)
  /\ Commit(removeFromParentView010(Current, v))

RemoveAllChildViews010(v) ==
  /\ ver = "0.1.0"
  /\ Exists(v)
  /\ Commit(removeAllChildViews010(Current, v))

LoadCall(v) ==
  /\ Exists(v)
  /\ Commit(load(Current, v))

UnloadCall(v) ==
  /\ Exists(v)
  /\ Commit(unload(Current, v))

Answer(v, b) ==
  /\ Answerable(v, b)
  /\ Commit(answer(Current, v, b))

Next010 ==
  \/ \E v \in Views, p \in Views \cup {NoView} : NewView010(v, p)
  \/ \E v \in Views : LoadCall(v)
  \/ \E v \in Views : UnloadCall(v)
  \/ \E v \in Views, b \in Bundles : Answer(v, b)
  \/ \E v \in Views, i \in 1..MaxPending : Constructed(v, i)
  \/ \E p \in Views, c \in Views : RemoveChildView010(p, c)
  \/ \E v \in Views : RemoveAllChildViews010(v)
  \/ \E v \in Views : RemoveFromParentView010(v)

Spec010 == Init010 /\ [][Next010]_vars

\* the same with the observer following the order of the notifications
Init010Phase ==
  /\ ver \in Versions010
  /\ app \in Apps010
  /\ views = [v \in Views |-> NoObject]
  /\ dom = PageDom
  /\ pending = NoPending
  /\ last = [op |-> "init", v |-> NoView, arg |-> Undef, err |-> NoErr, ret |-> Undef,
             events |-> <<>>]
  /\ callbacks = NoCallbacks
  /\ obs = [Unobserved EXCEPT !.mode = "phase"]

Spec010Phase == Init010Phase /\ [][Next010]_vars

(***************************************************************************)
(* One load of a tree.  The application constructs its views, calls load() *)
(* on a root view once and makes no further call; from then on only the    *)
(* resource loader acts, and it answers every request.                     *)
(***************************************************************************)
LiveRuns ==
  (Versions \X Apps) \cup (Versions010 \X Apps010)

InitLive ==
  /\ \E run \in LiveRuns : ver = run[1] /\ app = run[2]
  /\ views = [v \in Views |-> NoObject]
  /\ dom = PageDom
  /\ pending = NoPending
  /\ last = [op |-> "init", v |-> NoView, arg |-> Undef, err |-> NoErr, ret |-> Undef,
             events |-> <<>>]
  /\ callbacks = NoCallbacks
  /\ obs = [Unobserved EXCEPT !.mode = "build"]

\* new View({...}) before the load
Plant(v, parentView) ==
  /\ obs.mode = "build"
  /\ IF ver = "0.1.0" THEN v \in Constructs(app) /\ v = FreeView(views) ELSE NextNew(v)
  /\ parentView \in ParentChoices(app, v)
  /\ parentView # NoView => Exists(parentView)
  /\ Commit(IF ver = "0.2.0"
            THEN View020(Current, v, RootChoice(app, v), BundleChoice(app, v),
                         NameChoice(app, v), parentView)
            ELSE IF ver = "0.2.1"
            THEN View021(Current, v, NameChoice(app, v), BundleChoice(app, v),
                         RootChoice(app, v), parentView, <<>>)
            ELSE View010(Current, v, RootChoice(app, v), BundleChoice(app, v),
                         NameChoice(app, v), parentView))

\* the one call of load(), on a root view
Go(r) ==
  /\ obs.mode = "build"
  /\ Exists(r) /\ views[r].isRootView
  /\ \E S \in {load(Current, r)} :
       /\ Bounded(S)
       /\ \E N \in {Normalize(S)} :
            /\ views' = N.views
            /\ dom' = N.dom
            /\ pending' = S.pending
       /\ obs' = [obs EXCEPT !.mode = "live", !.root = r,
                              !.fired = [v \in Views |-> DidLoads(S.events, v)]]
  /\ UNCHANGED <<ver, app, last, callbacks>>

Respond(v, b) ==
  /\ obs.mode = "live"
  /\ Answer(v, b)

RespondConstructors(v, i) ==
  /\ obs.mode = "live"
  /\ Constructed(v, i)

NextLive ==
  \/ \E v \in Views, p \in Views \cup {NoView} : Plant(v, p)
  \/ \E r \in Views : Go(r)
  \/ \E v \in Views, b \in Bundles : Respond(v, b)
  \/ \E v \in Views, i \in 1..MaxPending : RespondConstructors(v, i)

\* a request is in flight
Waiting ==
  \E v \in Views : views[v].scans # <<>> \/ \E b \in Bundles : Answerable(v, b)

\* did-load notifications of one view the observer counts
MaxFired == 3

\* a step of the resource loader as the observer sees it: one more answer
Delivery ==
  /\ obs.mode = "live"
  /\ Waiting
  /\ obs' \in {[obs EXCEPT !.answers = @ + 1, !.fired = c] : c \in [Views -> 0..MaxFired]}

\* the resource loader answers every request: it does not stop while a
\* request is in flight
Answering == WF_obs(Delivery)

SpecLive == InitLive /\ [][NextLive]_vars /\ Answering

(***************************************************************************)
(* The state machine of an application that leaves properties out and, in  *)
(* 0.2.1, assigns them later.                                              *)
(***************************************************************************)
InitEdit ==
  /\ ver \in Versions
  /\ app \in AppsEdit
  /\ <<ver, app>> \in Runs
  /\ views = [v \in Views |-> NoObject]
  /\ dom = PageDom
  /\ pending = NoPending
  /\ last = [op |-> "init", v |-> NoView, arg |-> Undef, err |-> NoErr, ret |-> Undef,
             events |-> <<>>]
  /\ callbacks = NoCallbacks
  /\ obs = Unobserved

NewBare020(v, parentView, bundle, container) ==
  /\ ver = "0.2.0"
  /\ v \in Constructs(app)
  /\ NextNew(v)
  /\ parentView \in ParentChoices(app, v)
  /\ parentView # NoView => Exists(parentView)
  /\ bundle \in BundleEdits(app, v)
  /\ container \in NameEdits(app, v)
  /\ Commit(View020(Current, v, RootChoice(app, v), bundle, container, parentView))

NewBare021(v, parentView, bundle, name) ==
  /\ ver = "0.2.1"
  /\ v \in Constructs(app)
  /\ NextNew(v)
  /\ parentView \in ParentChoices(app, v)
  /\ parentView # NoView => Exists(parentView)
  /\ bundle \in BundleEdits(app, v)
  /\ name \in NameEdits(app, v)
  /\ Commit(View021(Current, v, name, bundle, RootChoice(app, v), parentView, <<>>))

SetName(v, name) ==
  /\ ver = "0.2.1"
  /\ Exists(v)
  /\ name \in NameEdits(app, v)
  /\ Commit(setName021(Current, v, name))

SetBundle(v, bundle) ==
  /\ ver = "0.2.1"
  /\ Exists(v)
  /\ bundle \in BundleEdits(app, v)
  /\ Commit(setBundle021(Current, v, bundle))

SetIsRootView(v, isRootView) ==
  /\ ver = "0.2.1"
  /\ Exists(v)
  /\ isRootView \in RootEdits(app, v)
  /\ Commit(setIsRootView021(Current, v, isRootView))

AssignParentView(v, parentView) ==
  /\ ver = "0.2.1"
  /\ Exists(v)
  /\ parentView \in ParentChoices(app, v)
  /\ parentView # NoView => Exists(parentView) /\ parentView \notin Below(views, v) \cup {v}
  /\ Commit(setParentView021(Current, v, parentView))

AssignChildViews(v, childViews) ==
  /\ ver = "0.2.1"
  /\ Exists(v)
  /\ childViews \in KidChoices(app, v)
  /\ \A c \in Range(childViews) : Exists(c) /\ v \notin Below(views, c) \cup {c}
  /\ Commit(setChildViews021(Current, v, childViews))

NextEdit ==
  \/ \E v \in Views, p \in Views \cup {NoView}, b \in Bundles \cup {Undef},
        n \in Names \cup {Undef} : NewBare020(v, p, b, n)
  \/ \E v \in Views, p \in Views \cup {NoView}, b \in Bundles \cup {Undef},
        n \in Names \cup {Undef} : NewBare021(v, p, b, n)
  \/ \E v \in Views : LoadCall(v)
  \/ \E v \in Views : UnloadCall(v)
  \/ \E v \in Views, b \in Bundles : Answer(v, b)
  \/ \E v \in Views, n \in Names \cup {Undef} : SetName(v, n)
  \/ \E v \in Views, b \in Bundles \cup {Undef} : SetBundle(v, b)
  \/ \E v \in Views, x \in BOOLEAN : SetIsRootView(v, x)
  \/ \E v \in Views, p \in Views \cup {NoView} : AssignParentView(v, p)
  \/ \E v \in Views, k \in {<<>>, <<"c">>, <<"c", "d">>} : AssignChildViews(v, k)

SpecEdit == InitEdit /\ [][NextEdit]_vars

(***************************************************************************)
(* The state machine of an application that subscribes to the notification *)
(* channels of 0.2.1.                                                      *)
(***************************************************************************)
InitSubs ==
  /\ ver = "0.2.1"
  /\ app \in AppsSubs
  /\ views = [v \in Views |-> NoObject]
  /\ dom = PageDom
  /\ pending = NoPending
  /\ last = [op |-> "init", v |-> NoView, arg |-> Undef, err |-> NoErr, ret |-> Undef,
             events |-> <<>>]
  /\ callbacks = NoCallbacks
  /\ obs = [Unobserved EXCEPT !.mode = "subs"]

\* view.onViewDidLoad.subscribe(f) and view.onViewWillUnload.subscribe(f)
Subscribe(v, kind, f) ==
  /\ obs.mode = "subs"
  /\ v \in Listened(app)
  /\ Exists(v)
  /\ LET r == add(callbacks, kind, v, f)
     IN /\ callbacks' = r.cb
        /\ obs' = [obs EXCEPT !.heard = r.heard, !.told = <<>>]
  /\ UNCHANGED <<ver, app, views, dom, pending, last>>

Unsubscribe(v, kind, f) ==
  /\ obs.mode = "subs"
  /\ v \in Listened(app)
  /\ Exists(v)
  /\ callbacks' = remove(callbacks, kind, v, f)
  /\ obs' = [obs EXCEPT !.heard = <<>>, !.told = <<>>]
  /\ UNCHANGED <<ver, app, views, dom, pending, last>>

NextSubs ==
  \/ \E v \in Views, p \in Views \cup {NoView}, b \in Bundles \cup {Undef},
        n \in Names \cup {Undef} : NewBare021(v, p, b, n)
  \/ \E v \in Views : LoadCall(v)
  \/ \E v \in Views : UnloadCall(v)
  \/ \E v \in Views, b \in Bundles : Answer(v, b)
  \/ \E v \in Views, kind \in Channels, f \in Subscribers : Subscribe(v, kind, f)
  \/ \E v \in Views, kind \in Channels, f \in Subscribers : Unsubscribe(v, kind, f)

SpecSubs == InitSubs /\ [][NextSubs]_vars

(***************************************************************************)
(* Properties.                                                             *)
(***************************************************************************)
\* the notification kind was fired for v by the operation that left S
Fired(S, kind, v) == <<kind, v>> \in Range(S.events)

\* what is mounted inside the elements els, as a tree of attribute values
RECURSIVE Shape(_, _)
Shape(d, els) ==
  [i \in 1..Len(els) |-> <<d.ename[els[i]], Shape(d, d.kids[els[i]])>>]

\* the page as a tree of attribute values
PageShape(d) == Shape(d, d.kids[Body])

\* v has resolved its mount location and is waiting for its bundle or is loaded
Holds(v) ==
  /\ views[v].containerElement.k = "jq"
  /\ pending[v][views[v].bundle] > 0 \/ isLoaded(Current, v)

\* C1: when unload() is called on a view whose resource request is still
\* pending, the callback of that request is a no-op when it runs later: the
\* view stays unloaded, the page is not changed, did-load is not fired and no
\* child view is loaded.
C1_CallbackAfterUnloadIsNoOp ==
  \A v \in Views, b \in Bundles :
    Answerable(v, b) =>
      LET S1 == unload(Current, v)
          S2 == answer(Then(S1), v, b)
      IN S1.err = NoErr =>
           /\ ~isLoaded(S2, v)
           /\ S2.dom = S1.dom
           /\ S2.events = <<>>
           /\ \A c \in Views : S2.pending[c] = pending[c] \/ c = v

\* C2: no two views hold the same resolved mount location at once, also when
\* both called load() before either resource request was answered.
C2_ExclusiveLocation ==
  \A v \in Views, w \in Views :
    v # w /\ Holds(v) /\ Holds(w) =>
      Range(views[v].containerElement.els) \cap Range(views[w].containerElement.els) = {}

\* C3: when load() of a view fails because its location is occupied, the
\* content of that location is as it was, after the failed load() and after an
\* unload() or a further load() of the same view that follows it.
C3_OccupiedContentKept ==
  \A v \in Views :
    LET S1 == load(Current, v)
        at == S1.views[v].containerElement.els
        S2 == unload(Then(S1), v)
        S3 == load(Then(S1), v)
    IN S1.err = "Occupied" =>
         /\ Shape(S1.dom, at) = Shape(dom, at)
         /\ Shape(S2.dom, at) = Shape(dom, at)
         /\ Shape(S3.dom, at) = Shape(dom, at)

\* requests of v in flight
InFlight(pn, v) == SumOver(pn[v], BundleSeq)

\* C4: a load() called while an earlier load() of the same view still waits for
\* its resource supersedes it: one answer only is applied for the load cycle,
\* so no answer mounts content or fires did-load on a view that the cycle has
\* loaded already.
C4_OneAnswerApplied ==
  [][\A v \in Views :
        InFlight(pending', v) < InFlight(pending, v) /\ isLoaded(Current, v)
          => /\ ~Fired(last', "didLoad", v)
             /\ PageShape(dom') = PageShape(dom)]_vars

\* no view is loaded or waits for its resource
AllUnloaded ==
  \A v \in Views : ~isLoaded(Current, v) /\ InFlight(pending, v) = 0

\* C5: unload() of a loaded view returns its mount location to the content it
\* had before load() was called, in every load/unload cycle: once every view is
\* unloaded again the page is as the application found it.
C5_RoundTrip == AllUnloaded => PageShape(dom) = PageShape(PageDom)

\* v is no root view and has no parent view
Orphan(v) == views[v].exists /\ ~views[v].isRootView /\ views[v].parentView = NoView

\* C6: load() of a view that is no root view and has no parent view throws,
\* requests no resource and changes nothing, so that the view stays unloaded.
C6_OrphanLoadFails ==
  \A v \in Views :
    Orphan(v) =>
      LET S1 == load(Current, v)
      IN /\ S1.err # NoErr
         /\ S1.pending = pending
         /\ S1.events = <<>>
         /\ S1.views = views
         /\ S1.dom = dom

\* an unloaded orphan exists and its load() throws "detached from hierarchy"
C6_Witness ==
  \E v \in Views :
    Orphan(v) /\ ~isLoaded(Current, v) /\ load(Current, v).err = "Detached"

\* the parent view of v is configured and is not loaded
ParentUnloaded(v) ==
  /\ views[v].exists
  /\ views[v].parentView # NoView
  /\ ~isLoaded(Current, views[v].parentView)

\* C7: load() of a view whose parent view is not loaded throws at once,
\* requests no resource and leaves the view unloaded.
C7_LoadUnderUnloadedParentFails ==
  \A v \in Views :
    ParentUnloaded(v) =>
      LET S1 == load(Current, v)
      IN /\ S1.err # NoErr
         /\ S1.pending = pending
         /\ ~isLoaded(S1, v)

\* C8: a loaded view that has a parent view has a loaded parent view.
C8_LoadedUnderLoadedParent ==
  \A v \in Views :
    isLoaded(Current, v) /\ views[v].parentView # NoView
      => isLoaded(Current, views[v].parentView)

\* the mount name a view declares
MountName(vw, v) == IF ver = "0.2.1" THEN vw[v].name ELSE vw[v].container

\* attaching c to p: addChildView in 0.2.0, the parentView setter in 0.2.1
attachChild(S, p, c) ==
  IF ver = "0.2.0" THEN addChildView020(S, p, c)
  ELSE IF ver = "0.2.1" THEN setParentView021(S, c, p) ELSE addChildView010(S, p, c)

\* p has a child other than c that declares the mount name of c
Rival(p, c) ==
  /\ views[p].exists /\ views[c].exists /\ p # c
  /\ c \notin Range(views[p].childViews)
  /\ \E e \in Range(views[p].childViews) :
       MountName(views, e) # Undef /\ MountName(views, e) = MountName(views, c)

\* C9: attaching a view to a parent that has another child with the same
\* mount name returns that child as the conflict and does not append the view
\* to the parent's children.
C9_RivalRejected ==
  \A p \in Views, c \in Views :
    Rival(p, c) =>
      LET S1 == attachChild(Current, p, c)
      IN /\ c \notin Range(S1.views[p].childViews)
         /\ S1.ret \in Range(views[p].childViews)
         /\ MountName(views, S1.ret) = MountName(views, c)

\* C10: no view is listed twice in the children of a view.
C10_NoChildTwice ==
  \A p \in Views :
    Cardinality(Range(views[p].childViews)) = Len(views[p].childViews)

\* the outlet entries and target-action entries of x that refer to a view of
\* the set gone
RefersTo(vw, x, gone) ==
  {o \in OutletNames : vw[x].outlets[o] \in gone}
    \cup {ev \in EventNames : vw[x].targetActions[ev].target \in gone}

\* C11: after removeChildView(child) or removeAllChildViews() returns, no
\* outlet entry and no target-action entry of the parent or of a view of the
\* detached subtree refers to a detached view.
C11_NoReferenceToDetached ==
  /\ \A p \in Views, c \in Views :
       c \in Range(views[p].childViews) =>
         LET S1 == removeChildView010(Current, p, c)
             gone == {c} \cup Below(views, c)
         IN S1.err = NoErr =>
              \A x \in {p} \cup gone : RefersTo(S1.views, x, gone) = {}
  /\ \A p \in Views :
       LET S1 == removeAllChildViews010(Current, p)
           gone == Below(views, p)
       IN \A x \in {p} \cup gone : RefersTo(S1.views, x, gone) = {}

\* the loaded children of v, their loaded children, and so on
LoadedBelow(v) ==
  LET step(X) ==
        X \cup {c \in UNION {Range(views[x].childViews) : x \in X \cup {v}} :
                  isLoaded(Current, c)}
  IN step(step(step({})))

\* the content of x that is mounted before the call is, in the surface d,
\* where it was
StillMounted(d, x) ==
  \A i \in 1..Len(views[x].viewElement.els) :
    LET e == views[x].viewElement.els[i]
    IN ParentNode(dom, e) # -1 => ParentNode(d, e) = ParentNode(dom, e)

\* C12: unload() of a loaded view fires will-unload for every loaded child,
\* and so on down the loaded views, before it fires the view's own
\* will-unload, and every one of them finds its own content still mounted.
C12_ChildrenNotifiedFirst ==
  \A p \in Views :
    isLoaded(Current, p) =>
      LET S1 == unload(Current, p)
          at(x) == IndexOf(<<"willUnload", x>>, S1.events)
      IN S1.err = NoErr =>
           /\ at(p) > 0
           /\ \A x \in LoadedBelow(p) : at(x) > 0 /\ at(x) < at(p)
           /\ \A x \in LoadedBelow(p) \cup {p} : StillMounted(S1.snap[at(x)], x)

\* a loaded view with a loaded child and a loaded grandchild is unloaded
C12_Witness ==
  \E p \in Views :
    /\ isLoaded(Current, p)
    /\ Cardinality(LoadedBelow(p)) = 2
    /\ \A x \in LoadedBelow(p) \cup {p} :
         ParentNode(dom, views[x].viewElement.els[1]) # -1
    /\ unload(Current, p).events =
         <<<<"willUnload", "d">>, <<"willUnload", "c">>, <<"willUnload", "r">>>>

\* no request is in flight
Quiet(S) == \A v \in Views : PendingOf(S, v) = 0 /\ S.views[v].scans = <<>>

\* the resource loader answers the requests in flight, and those that the
\* callbacks issue, until none is left or a callback throws
RECURSIVE settle(_)
settle(S) ==
  LET html == {q \in Views \X Bundles : S.pending[q[1]][q[2]] > 0}
      ctor == {v \in Views : S.views[v].scans # <<>>}
  IN IF S.err # NoErr \/ (html = {} /\ ctor = {}) THEN S
     ELSE IF html # {}
          THEN LET q == CHOOSE q \in html : TRUE IN settle(answer(S, q[1], q[2]))
          ELSE LET v == CHOOSE v \in ctor : TRUE IN settle(constructed010(S, v, 1))

\* the mount names of the annotated elements of a bundle's markup
Annotated(b) == SelectSeq(Markup(b), LAMBDA n : LoadView(n) # Undef)

\* elements created when a root view and the views its markup declares load
FullLoadNeed ==
  (1 + Len(Markup("deck"))) + (1 + Len(Markup("card"))) + (1 + Len(Markup("leaf")))

\* every annotated element of the markup of v, and of the views below v, has a
\* child view for its name
Populated(v) ==
  \A x \in Below(views, v) \cup {v} :
    views[x].bundle # Undef =>
      \A i \in 1..Len(Annotated(views[x].bundle)) :
        \E c \in Range(views[x].childViews) :
          views[c].container = Annotated(views[x].bundle)[i]

\* v has finished loading and can be reloaded within the bounds of the model
Reloadable(v) ==
  /\ views[v].exists /\ isLoaded(Current, v) /\ views[v].viewDidLoadCalled
  /\ Quiet(Current)
  /\ dom.n + FullLoadNeed <= MaxElem

\* C13: unloading and reloading a view whose markup annotations have their
\* child views leaves the children collection as it was, the same views in the
\* same order, with no second child for any mount name, once the reload has
\* completed.
C13_ReloadKeepsChildren ==
  \A p \in Views :
    Reloadable(p) /\ Populated(p) =>
      LET S1 == unload(Current, p)
          S2 == load(Then(S1), p)
          S == settle(S2)
          kids == S.views[p].childViews
      IN S1.err = NoErr /\ S2.err = NoErr =>
           /\ S.err = NoErr
           /\ Quiet(S)
           /\ S.views[p].viewDidLoadCalled
           /\ kids = views[p].childViews
           /\ \A i \in 1..Len(kids), j \in 1..Len(kids) :
                i # j => S.views[kids[i]].container # S.views[kids[j]].container

\* a loaded root view with an automatically created child is reloaded
C13_Witness ==
  \E p \in Views :
    /\ Reloadable(p) /\ Populated(p)
    /\ \E c \in Range(views[p].childViews) : views[c].wasAutomaticallyCreated
    /\ LET S == settle(load(Then(unload(Current, p)), p))
       IN S.err = NoErr /\ Quiet(S) /\ isLoaded(S, p)

\* C14: when the markup of a root view has one annotated element, with mount
\* name s, then once load() of the root view and all requests have completed
\* the root view has exactly one child view; its mount name is s, it was
\* created automatically and it is loaded.
C14_AutoChildLoaded ==
  \A r \in Views :
    /\ views[r].exists /\ views[r].isRootView /\ views[r].childViews = <<>>
    /\ Quiet(Current)
    /\ dom.n + FullLoadNeed <= MaxElem
    /\ Len(Annotated(views[r].bundle)) = 1
    => LET S1 == load(Current, r)
           S == settle(S1)
           kids == S.views[r].childViews
       IN S1.err = NoErr /\ S.err # PoolErr =>
            /\ S.err = NoErr
            /\ Quiet(S)
            /\ Len(kids) = 1
            /\ S.views[kids[1]].container = Annotated(views[r].bundle)[1]
            /\ S.views[kids[1]].wasAutomaticallyCreated
            /\ isLoaded(S, kids[1])

\* a root view has loaded, every request is answered, and its one child view
\* is the loaded view created for the annotated element
C14_Witness ==
  \E r \in Views :
    /\ views[r].exists /\ views[r].isRootView /\ views[r].viewDidLoadCalled
    /\ Quiet(Current)
    /\ Len(views[r].childViews) = 1
    /\ LET c == views[r].childViews[1]
       IN /\ views[c].wasAutomaticallyCreated
          /\ views[c].container = Annotated(views[r].bundle)[1]
          /\ isLoaded(Current, c)

\* how often the notification kind was fired for v
RECURSIVE FiredCount(_, _, _)
FiredCount(events, kind, v) ==
  IF events = <<>> THEN 0
  ELSE (IF Head(events) = <<kind, v>> THEN 1 ELSE 0) + FiredCount(Tail(events), kind, v)

\* v is loaded, none of its requests is in flight, and the answer to a new
\* request fits the bounds of the model
Settled(v) ==
  /\ views[v].exists /\ isLoaded(Current, v) /\ InFlight(pending, v) = 0
  /\ views[v].bundle # Undef
  /\ dom.n + 2 * (1 + Len(Markup(views[v].bundle)) + Len(views[v].containerElement.els)) <= MaxElem

\* C15: load() of a loaded view that passes the checks of load() first unloads
\* the view, firing will-unload and putting the prior content back, and then
\* loads it again: it issues one request, and the answer to it mounts the
\* content and fires did-load for the view once.
C15_ReloadNotifiesOnce ==
  \A v \in Views :
    Settled(v) =>
      LET S1 == load(Current, v)
          S2 == answer(Then(S1), v, views[v].bundle)
      IN S1.err = NoErr =>
           /\ FiredCount(S1.events, "willUnload", v) = 1
           /\ FiredCount(S1.events, "didLoad", v) = 0
           /\ S1.dom = unload(Current, v).dom
           /\ ~isLoaded(S1, v)
           /\ InFlight(S1.pending, v) = 1
           /\ FiredCount(S2.events, "didLoad", v) = 1
           /\ isLoaded(S2, v)
           /\ InFlight(S2.pending, v) = 0

\* a loaded view with a loaded child is reloaded and notified once
C15_Witness ==
  \E v \in Views :
    /\ Settled(v)
    /\ \E c \in Range(views[v].childViews) : isLoaded(Current, c)
    /\ LET S1 == load(Current, v)
           S2 == answer(Then(S1), v, views[v].bundle)
       IN /\ S1.err = NoErr /\ S2.err = NoErr
          /\ FiredCount(S1.events, "willUnload", v) = 1
          /\ FiredCount(S2.events, "didLoad", v) = 1

\* c can be attached to p as a new child: no child of p declares its mount
\* name, and c is unloaded with no request of its own in flight
Attachable(p, c) ==
  /\ ver # "0.2.1"
  /\ views[p].exists /\ views[c].exists /\ p # c
  /\ p \notin Below(views, c)
  /\ c \notin Range(views[p].childViews)
  /\ conflictingChildView(Current, p, c) = NoView
  /\ ~isLoaded(Current, c) /\ InFlight(pending, c) = 0

\* the errors load() throws
LoadErrors ==
  {"Detached", "NotFound", "NotDescendant", "Nested", "Occupied", "NoBundle", "TypeError"}

\* C16: addChildView on a loaded parent appends the child and starts its
\* load() at once: a request for the child is issued unless that load() throws.
\* addChildView on an unloaded parent appends the child and starts no load; the
\* child stays unloaded, and a load() of the child throws and requests nothing
\* as long as the parent is not loaded.
C16_AttachLoadsUnderLoadedParent ==
  \A p \in Views, c \in Views :
    Attachable(p, c) =>
      LET S1 == attachChild(Current, p, c)
          S2 == load(Then(S1), c)
      IN /\ S1.views[c].parentView = p
         /\ S1.views[p].childViews = Append(views[p].childViews, c)
         /\ isLoaded(Current, p) =>
              \/ S1.err = NoErr /\ InFlight(S1.pending, c) = 1
              \/ S1.err \in LoadErrors /\ S1.pending = pending
         /\ ~isLoaded(Current, p) =>
              /\ S1.err = NoErr /\ S1.pending = pending /\ S1.events = <<>>
              /\ S1.dom = dom /\ ~isLoaded(S1, c)
              /\ S2.err \in LoadErrors /\ S2.pending = pending /\ ~isLoaded(S2, c)

\* a view has been attached to a loaded parent and its request is in flight,
\* and another view can be attached to an unloaded parent
C16_Witness ==
  /\ \E p \in Views, c \in Views :
       /\ ver # "0.2.1" /\ views[c].parentView = p /\ isLoaded(Current, p)
       /\ c \in Range(views[p].childViews)
       /\ ~isLoaded(Current, c) /\ InFlight(pending, c) = 1
       /\ last.op \in {"addChildView", "new"} /\ last.v \in {p, c} /\ last.err = NoErr
  /\ \E p \in Views, c \in Views : Attachable(p, c)

\* load() fails because no mount element is found, the location is occupied
\* or the containment rules are violated
MountErrors == {"NotFound", "Occupied", "NotDescendant", "Nested"}

\* C17: a load() that fails because no mount element is found, the location is
\* occupied or containment is violated leaves the view unloaded, keeps no
\* reference to a resolved mount element and requests no resource.
C17_FailedLoadKeepsNothing ==
  \A v \in Views :
    views[v].exists =>
      LET S1 == load(Current, v)
      IN S1.err \in MountErrors =>
           /\ ~isLoaded(S1, v)
           /\ S1.views[v].containerElement.els = <<>>
           /\ S1.pending = pending

\* load() fails a precondition: the name (0.2.0: the container) or the bundle
\* is missing, or the view is neither a root view nor has a parent
PreconditionFails(S1, v) ==
  \/ S1.err \in {"NoName", "NoBundle", "Detached"}
  \/ ver = "0.2.0" /\ views[v].container = Undef /\ S1.err = "NotFound"

\* C18: a load() that fails a precondition changes nothing: no view's loaded
\* state, no content on the surface, no request and no notification, also
\* when the view was loaded before the call.
C18_FailedPreconditionChangesNothing ==
  \A v \in Views :
    views[v].exists =>
      LET S1 == load(Current, v)
      IN PreconditionFails(S1, v) =>
           /\ \A x \in Views : isLoaded(S1, x) = isLoaded(Current, x)
           /\ S1.dom = dom
           /\ S1.pending = pending
           /\ S1.events = <<>>

\* the values an assignment may carry
KidValues == {<<>>} \cup {<<x>> : x \in Views} \cup {<<x, y>> : x \in Views, y \in Views}

\* every assignment to a property of v throws and leaves all views as they are
Rejected(S, v) ==
  /\ \A n \in Names \cup {Undef} :
       LET S1 == setName021(S, v, n) IN S1.err = "Loaded" /\ S1.views = S.views
  /\ \A b \in Bundles \cup {Undef} :
       LET S1 == setBundle021(S, v, b) IN S1.err = "Loaded" /\ S1.views = S.views
  /\ \A x \in BOOLEAN :
       LET S1 == setIsRootView021(S, v, x) IN S1.err = "Loaded" /\ S1.views = S.views
  /\ \A p \in Views \cup {NoView} :
       LET S1 == setParentView021(S, v, p) IN S1.err = "Loaded" /\ S1.views = S.views
  /\ \A k \in KidValues :
       LET S1 == setChildViews021(S, v, k) IN S1.err = "Loaded" /\ S1.views = S.views

\* C19: while a view is loaded, assigning its name, bundle, isRootView,
\* parentView or childViews throws and leaves the property (and every other
\* one) unchanged.
C19_SettersRejectedWhileLoaded ==
  \A v \in Views :
    ver = "0.2.1" /\ views[v].exists /\ isLoaded(Current, v) => Rejected(Current, v)

\* a loaded view with children whose childViews is assigned the empty
\* collection, and whose name is assigned undefined: both throw
C19_Witness ==
  \E v \in Views :
    /\ ver = "0.2.1" /\ views[v].exists /\ isLoaded(Current, v)
    /\ views[v].childViews # <<>> /\ views[v].name # Undef
    /\ setChildViews021(Current, v, <<>>).err = "Loaded"
    /\ setName021(Current, v, Undef).err = "Loaded"

\* load() has passed its checks and the answer to its request is pending
Loading(S, v) ==
  /\ InFlight(S.pending, v) > 0
  /\ ~isLoaded(S, v)
  /\ S.views[v].containerElement.k = "jq" /\ Len(S.views[v].containerElement.els) > 0

\* C20: while a view's request is pending, assigning its name, bundle,
\* parentView or childViews is rejected as it is while the view is loaded.
C20_SettersRejectedWhileLoading ==
  \A v \in Views :
    ver = "0.2.1" /\ views[v].exists /\ Loading(Current, v) =>
      /\ \A n \in Names \cup {Undef} : setName021(Current, v, n).err # NoErr
      /\ \A b \in Bundles \cup {Undef} : setBundle021(Current, v, b).err # NoErr
      /\ \A p \in Views \cup {NoView} : setParentView021(Current, v, p).err # NoErr
      /\ \A k \in KidValues : setChildViews021(Current, v, k).err # NoErr

\* the view is neither loaded nor waiting for an answer
Unloaded(S, v) == ~isLoaded(S, v) /\ InFlight(S.pending, v) = 0

\* C21: unload() of an unloaded view does not throw, fires nothing, leaves the
\* surface as it is and leaves every field of the view as it is.
C21_UnloadOfUnloadedIsNoOp ==
  \A v \in Views :
    views[v].exists /\ Unloaded(Current, v) =>
      LET S1 == unload(Current, v)
      IN /\ S1.err = NoErr
         /\ S1.events = <<>>
         /\ S1.dom = dom
         /\ S1.views = views

\* the subscriber calls that the notifications in events call for: for each
\* notification every function subscribed to it, once, in subscription order
RECURSIVE Due(_, _)
Due(cb, events) ==
  IF events = <<>> THEN <<>>
  ELSE LET kind == Head(events)[1]
           v == Head(events)[2]
       IN [i \in 1..Len(cb[v][kind].list) |-> <<kind, v, cb[v][kind].list[i]>>]
            \o Due(cb, Tail(events))

\* C22: the subscriber calls of a step are exactly those of the notifications
\* the step fires for a view entering or leaving the loaded state: all
\* subscribers, once each, in subscription order, and no call at another time.
C22_SubscribersCalledOnTransitionsOnly ==
  obs.mode = "subs" => obs.heard = Due(callbacks, obs.told)

\* the functions subscribed, per view and notification
Lists(cb) == [v \in Views |-> [kind \in Channels |-> cb[v][kind].list]]

\* C23: subscriptions outlive unload/load cycles: a step that loads, unloads
\* or answers a request removes no subscriber, and every notification it fires
\* calls every function subscribed to it; the lists change only in steps that
\* subscribe or unsubscribe.
C23_SubscriptionsPersist ==
  [][obs.mode = "subs" =>
       /\ Lists(callbacks') # Lists(callbacks) =>
            views' = views /\ dom' = dom /\ pending' = pending /\ obs'.told = <<>>
       /\ \A i \in 1..Len(obs'.told) :
            \A f \in Range(callbacks[obs'.told[i][2]][obs'.told[i][1]].list) :
              <<obs'.told[i][1], obs'.told[i][2], f>> \in Range(obs'.heard)]_vars

\* r is loaded again after an unload, and the two functions subscribed to its
\* did-load are called in subscription order
C23_Witness ==
  /\ obs.mode = "subs"
  /\ callbacks["r"]["willUnload"].memory
  /\ callbacks["r"]["didLoad"].list = <<"g", "f">>
  /\ obs.told = << <<"didLoad", "r">> >>
  /\ obs.heard = << <<"didLoad", "r", "g">>, <<"didLoad", "r", "f">> >>
  /\ isLoaded(Current, "r")

\* C24: for every view, did-load and will-unload notifications alternate,
\* beginning with did-load, in every interleaving of calls and answers.
C24_NotificationsAlternate == obs.mode = "phase" => obs.ok

\* the views load() was called on while the operation that left S ran
LoadsOf(S) ==
  LET l == SelectSeq(S.log, LAMBDA e : e[1] = "load")
  IN [i \in 1..Len(l) |-> l[i][2]]

IsPrefix(s, t) == Len(s) <= Len(t) /\ s = SubSeq(t, 1, Len(s))

\* in the run of v's callback that left S, v was notified before load() was
\* called on any view, and load() was called on v's children in the order of
\* the children collection, on all of them unless one of the calls threw
NotifiedThenLoaded(S, v) ==
  Fired(S, "didLoad", v) =>
    /\ S.log[1] = <<"didLoad", v>>
    /\ IsPrefix(LoadsOf(S), S.views[v].childViews)
    /\ S.err = NoErr => LoadsOf(S) = S.views[v].childViews

Scanned(S, v) ==
  LET found == IF S.views[v].viewElement.els = <<>> THEN <<>>
               ELSE SelectSeq(Markup(S.views[v].bundle), LAMBDA n : LoadView(n) # Undef)
  IN \A i \in 1..Len(found) :
       LET x == conflictFor(S, v, found[i])
       IN /\ x # NoView
          /\ x \notin Range(views[v].childViews) /\ OutletAttr(found[i]) # Undef
               => S.views[v].outlets[OutletAttr(found[i])] = x

\* C26: when did-load fires for a view of 0.1.0, every auto-load annotation of
\* its mounted markup has been processed: a child is attached for each
\* annotated mount name and the outlets of newly attached children are set.
C26_ScannedBeforeDidLoad ==
  /\ \A v \in Views, b \in Bundles :
       Answerable(v, b) =>
         LET S == answer(Current, v, b) IN Fired(S, "didLoad", v) => Scanned(S, v)
  /\ \A v \in Views :
       \A i \in 1..Len(views[v].scans) :
         LET S == constructed010(Current, v, i) IN Fired(S, "didLoad", v) => Scanned(S, v)

\* the callback of the constructor request fires did-load after it has
\* attached a new child and registered its outlet
C26_Witness ==
  \E v \in Views :
    \E i \in 1..Len(views[v].scans) :
      LET S == constructed010(Current, v, i)
      IN /\ Fired(S, "didLoad", v)
         /\ scan010(S, v) # <<>>
         /\ \E x \in Range(S.views[v].childViews) :
              /\ x \notin Range(views[v].childViews)
              /\ S.views[x].wasAutomaticallyCreated
              /\ S.views[v].outlets["o"] = x

\* the elements strictly between the element e and its ancestor top
Between(d, e, top) ==
  LET a == Ancestors(d, e)
  IN SubSeq(a, 1, IndexOf(top, a) - 1)

\* the element e lies inside the root element of the loaded view p and inside
\* no mount element in between
Contained(S, p, e) ==
  LET root == S.views[p].viewElement.els
  IN /\ root # <<>>
     /\ root[1] \in Range(Ancestors(S.dom, e))
     /\ \A x \in Range(Between(S.dom, e, root[1])) : S.dom.ename[x] = NoAttr

\* C27: a load() of a view with a parent that passes its checks has resolved a
\* mount element inside the parent's root element and inside no other mount
\* element of the parent's content, so the view is never loaded elsewhere.
C27_LoadedInsideParentOnly ==
  \A v \in Views :
    views[v].exists /\ views[v].parentView # NoView =>
      LET S == load(Current, v)
      IN S.err = NoErr =>
           \A e \in Range(S.views[v].containerElement.els) :
             Contained(S, views[v].parentView, e)

\* the mount element(s) load() resolves for v in the current state
Resolved(v) ==
  LET p == views[v].parentView
  IN IF ver = "0.2.1"
     THEN IF p # NoView THEN scoped021(Current, p, views[v].name)
          ELSE JQ(DomQuery(dom, views[v].name))
     ELSE elementForContainer020(Current, v)

FirstOf(seq) == IF seq = <<>> THEN <<>> ELSE <<seq[1]>>

\* C28: the lookup of a view's mount element yields nothing when the view has
\* no mount name, looks only inside the root element of a loaded parent, looks
\* at the whole page when there is no parent or the parent is not loaded, and
\* yields at most one element, the first match.
C28_ResolveFirstMatchInScope ==
  \A v \in Views :
    views[v].exists /\ (ver = "0.2.1" /\ views[v].parentView # NoView
                          => isLoaded(Current, views[v].parentView)) =>
      LET p == views[v].parentView
          n == IF ver = "0.2.1" THEN views[v].name ELSE views[v].container
          c == Resolved(v)
      IN /\ n = Undef => c.els = <<>>
         /\ p # NoView /\ isLoaded(Current, p) =>
              c.els = FirstOf(DomFind(dom, views[p].viewElement.els, n))
         /\ p = NoView \/ ~isLoaded(Current, p) => c.els = FirstOf(DomQuery(dom, n))
         /\ Len(c.els) <= 1

\* the annotated mount names of the i-th scan of v that a child of v which
\* the application constructed declares already
Claimed(v, i) ==
  {n \in Range(views[v].scans[i]) :
     /\ conflictFor(Current, v, n) # NoView
     /\ ~views[conflictFor(Current, v, n)].wasAutomaticallyCreated}

\* C29: when the callback that creates the automatic children meets an
\* annotated element whose mount name a child constructed by the application
\* declares already, that child stays a child of the view, no automatically
\* created view is attached for the name, and the outlet named by the element
\* stays undefined.
C29_ExplicitChildWins ==
  \A v \in Views : \A i \in 1..Len(views[v].scans) : \A n \in Claimed(v, i) :
    LET x == conflictFor(Current, v, n)
        S == constructed010(Current, v, i)
    IN /\ x \in Range(S.views[v].childViews)
       /\ S.views[x].parentView = v
       /\ \A y \in Views :
            S.views[y].exists /\ S.views[y].container = n /\ y # x =>
              /\ y \notin Range(S.views[v].childViews)
              /\ S.views[y].parentView # v
       /\ OutletAttr(n) # Undef => S.views[v].outlets[OutletAttr(n)] = NoEntry

C29_Witness ==
  \E v \in Views : \E i \in 1..Len(views[v].scans) : \E n \in Claimed(v, i) :
    /\ OutletAttr(n) # Undef
    /\ constructed010(Current, v, i).err = NoErr
    /\ constructed010(Current, v, i).views[v].viewDidLoadCalled

\* the outlet names of p whose entry holds a view
Connected(vw, p) == {o \in OutletNames : vw[p].outlets[o] \notin {NoEntry, Undef}}

\* C30: every outlet entry of a view that holds a view holds a child of that
\* view: a view that is in its children with it as parent, that was created
\* automatically, and whose mount name is the one annotated with the outlet.
C30_OutletsReferToChildren ==
  \A p \in Views : \A o \in Connected(views, p) :
    LET x == views[p].outlets[o]
    IN /\ views[p].exists
       /\ x \in Range(views[p].childViews)
       /\ views[x].parentView = p
       /\ views[x].wasAutomaticallyCreated
       /\ OutletAttr(views[x].container) = o

C30_Witness ==
  \E p \in Views : \E o \in Connected(views, p) :
    /\ isLoaded(Current, p)
    /\ isLoaded(Current, views[p].outlets[o])

\* v is neither loaded nor waiting for the answer to a load()
Idle(S, v) == ~isLoaded(S, v) /\ ~Loading(S, v)

Without(seq, x) == SelectSeq(seq, LAMBDA e : e # x)

\* what holds of the state S reached by detaching the child c from p
Detached(S, p, c) ==
  /\ S.err = NoErr
  /\ \A x \in {c} \cup Below(views, c) : Idle(S, x)
  /\ c \notin Range(S.views[p].childViews)
  /\ S.views[c].parentView = NoView
  /\ \A x \in {c} \cup Below(views, c) : S.views[x].childViews = <<>>
  /\ \A x \in Below(views, c) : S.views[x].parentView = NoView
  /\ S.views[p].childViews = Without(views[p].childViews, c)
  /\ \A y \in Range(views[p].childViews) \ {c} :
       /\ isLoaded(S, y) = isLoaded(Current, y)
       /\ Loading(S, y) = Loading(Current, y)

\* C31: after removeChildView(c) on a view p that has c as a child, and after
\* c.removeFromParentView(), c and every view below it is neither loaded nor
\* loading, c is not in p's children, c has no parent, c and the views below
\* it have no children and no parent, and the other children of p are in the
\* same order and as loaded as before.
C31_DetachedChildIsUnloadedAndSevered ==
  \A p \in Views : \A c \in Range(views[p].childViews) :
    /\ Detached(removeChildView010(Current, p, c), p, c)
    /\ views[c].parentView = p => Detached(removeFromParentView010(Current, c), p, c)

\* removeAllChildViews of the snapshot that runs (0.2.1 has none)
removeAllChildViews(S, v) ==
  IF ver = "0.1.0" THEN removeAllChildViews010(S, v) ELSE removeAllChildViews020(S, v)

\* the elements lying inside the mount elements the view x holds
MountedAt(S, x) == DomChildren(S.dom, views[x].containerElement.els)

\* C32: after removeAllChildViews() on a view, loaded or not, no view that was
\* below it is loaded and the mount elements those views held are empty.
C32_RemoveAllUnloadsDescendants ==
  \A v \in Views :
    views[v].exists /\ ver # "0.2.1" =>
      LET S == removeAllChildViews(Current, v)
      IN \A x \in Below(views, v) :
           /\ ~isLoaded(S, x)
           /\ MountedAt(S, x) = <<>>

\* the operation that led to S raised nothing and changed nothing
Untouched(S) ==
  /\ S.err = NoErr
  /\ S.views = views
  /\ S.dom = dom
  /\ S.pending = pending
  /\ S.events = <<>>

\* C33: removeChildView(x) on a view that does not have x among its children,
\* and x.removeFromParentView() when the parent x refers to does not have x
\* among its children, raise nothing and leave the views, the page and the
\* requests as they are.
C33_RemovingNonChildChangesNothing ==
  \A p \in Views : \A x \in Views :
    views[p].exists /\ views[x].exists /\ x \notin Range(views[p].childViews) =>
      /\ Untouched(removeChildView020(Current, p, x))
      /\ views[x].parentView = p => Untouched(removeFromParentView020(Current, x))

\* C34: parent references and children collections agree: a view refers to p
\* as its parent exactly when it is among p's children, and it is listed there
\* once.
C34_ParentAndChildrenAgree ==
  \A p \in Views : \A x \in Views :
    views[p].exists /\ views[x].exists =>
      /\ views[x].parentView = p <=> x \in Range(views[p].childViews)
      /\ Len(SelectSeq(views[p].childViews, LAMBDA e : e = x)) <= 1

\* C35: when unload() of a view returns, the view and every view below it is
\* neither loaded nor waiting for the answer to a load().
C35_UnloadLeavesSubtreeUnloaded ==
  \A v \in Views :
    views[v].exists =>
      LET S == unload(Current, v)
      IN \A x \in {v} \cup Below(views, v) : Idle(S, x)

NoRepeat(seq) == \A i \in 1..Len(seq), j \in 1..Len(seq) : seq[i] = seq[j] => i = j

\* every view of the tree under the root view r passes the checks of load():
\* r is mounted on the page, every view has a bundle, and every child refers
\* to its parent, is no root view and declares a mount name of the markup of
\* its parent's bundle that no other child of that parent declares
Valid(r) ==
  /\ r # NoView /\ views[r].exists /\ views[r].isRootView /\ views[r].parentView = NoView
  /\ \E i \in 1..Len(PageMarkup) : PageMarkup[i] = MountName(views, r)
  /\ \A x \in {r} \cup Below(views, r) :
       /\ views[x].bundle # Undef
       /\ NoRepeat(views[x].childViews)
       /\ NoRepeat([i \in 1..Len(views[x].childViews) |-> MountName(views, views[x].childViews[i])])
       /\ \A c \in Range(views[x].childViews) :
            /\ views[c].parentView = x
            /\ ~views[c].isRootView
            /\ MountName(views, c) \in Range(Markup(views[x].bundle))

\* the views the application constructed all belong to the tree under r, so
\* that 0.1.0 finds a view identity for every annotated element of the tree
Fits(r) ==
  ver = "0.1.0" => \A v \in Views : views[v].exists => v \in {r} \cup Below(views, r)

\* every view of the tree under r is loaded and was notified once, and no
\* request is left
LoadedOnce(r) ==
  /\ r # NoView
  /\ Quiet(Current)
  /\ \A x \in {r} \cup Below(views, r) :
       /\ isLoaded(Current, x)
       /\ obs.fired[x] = 1

\* C36: when every view of the tree under a root view passes the checks of
\* load(), load() was called on the root view, no further call is made and
\* the resource loader answers every request, then eventually every view of
\* the tree is loaded and has received did-load exactly once.
C36_TreeEventuallyLoaded ==
  (obs.mode = "live" /\ Valid(obs.root) /\ Fits(obs.root)) ~> LoadedOnce(obs.root)

C36_Witness ==
  /\ obs.mode = "live" /\ Valid(obs.root) /\ Fits(obs.root)
  /\ LoadedOnce(obs.root)
  /\ Cardinality(Below(views, obs.root)) = 2

\* v's callback left S by an exception that a child's load() threw
ChildLoadThrew(S, v) == S.err # NoErr /\ Fired(S, "didLoad", v)

\* what holds of such an S: v is loaded and was notified once, load() was
\* called on the children up to the one that threw and on no other view, the
\* children before it have their request in flight, and the children after it
\* and their requests are as they were
Aborted(S, v) ==
  LET kids == S.views[v].childViews
      k == Len(LoadsOf(S))
  IN /\ isLoaded(S, v)
     /\ DidLoads(S.events, v) = 1
     /\ k \in 1..Len(kids)
     /\ LoadsOf(S) = SubSeq(kids, 1, k)
     /\ \A i \in 1..(k - 1) : InFlight(S.pending, kids[i]) > InFlight(pending, kids[i])
     /\ InFlight(S.pending, kids[k]) = InFlight(pending, kids[k])
     /\ \A i \in (k + 1)..Len(kids) :
          kids[i] \notin Range(SubSeq(kids, 1, k)) =>
            /\ S.views[kids[i]] = views[kids[i]]
            /\ S.pending[kids[i]] = pending[kids[i]]

\* C37: when load() of a child throws while the callback of its parent loads
\* the children, the parent stays loaded with did-load fired, the children
\* before the failing one have their requests in flight, and the children
\* after it are not touched by this callback.
C37_FailingChildAbortsTheRest ==
  \A v \in Views, b \in Bundles :
    Answerable(v, b) /\ ChildLoadThrew(answer(Current, v, b), v) =>
      Aborted(answer(Current, v, b), v)

C37_Witness ==
  \E v \in Views, b \in Bundles :
    /\ Answerable(v, b)
    /\ ChildLoadThrew(answer(Current, v, b), v)
    /\ Len(views[v].childViews) = 2
    /\ views[v].childViews[1] # views[v].childViews[2]
    /\ Len(LoadsOf(answer(Current, v, b))) = 1
    /\ ~isLoaded(Current, views[v].childViews[2])

\* what unload() is to leave alone in a view object
Lasting(w) ==
  [childViews |-> w.childViews, parentView |-> w.parentView, outlets |-> w.outlets,
   name |-> w.name, container |-> w.container, bundle |-> w.bundle,
   isRootView |-> w.isRootView, wasAutomaticallyCreated |-> w.wasAutomaticallyCreated]

\* C38: unload() leaves the children collection and its order, the parent
\* reference, the outlets, the mount name, the bundle and the
\* wasAutomaticallyCreated flag of the view and of every view below it (and
\* of every other view) as they were.
C38_UnloadKeepsStructure ==
  \A v \in Views :
    views[v].exists =>
      \A x \in Views : Lasting(unload(Current, v).views[x]) = Lasting(views[x])

C38_Witness ==
  \E v \in Views :
    /\ views[v].exists /\ isLoaded(Current, v)
    /\ Connected(views, v) # {}
    /\ \E c \in Range(views[v].childViews) : isLoaded(Current, c)
    /\ unload(Current, v).err = NoErr
    /\ ~isLoaded(unload(Current, v), v)

(***************************************************************************)
(* Target actions (0.1.0).  An action is the name of a method, a string,   *)
(* or a function; has[x] are the methods the view object x has when the    *)
(* entry is triggered.                                                     *)
(***************************************************************************)
MethodNames == {"onTap"}
Functions == {"fn"}
Entry == "entry"

\* view.registerTargetActionEvent(eventName, target, action)
registerTargetActionEvent(S, v, eventName, target, action) ==
  [S EXCEPT !.views[v].targetActions[eventName] = [target |-> target, action |-> action]]

\* view._targetActions[eventName].trigger(params): S.ret is the function
\* called and the object it is called on
trigger(S, v, eventName, has) ==
  LET e == S.views[v].targetActions[eventName]
  IN IF e.action = NoEntry THEN Throw(S, "TypeError")
     ELSE IF e.action \in Functions THEN [S EXCEPT !.ret = <<e.action, Entry>>]
     ELSE IF e.target = NoView THEN Throw(S, "TypeError")
     ELSE IF e.action \notin has[e.target] THEN Throw(S, "TypeError")
     ELSE [S EXCEPT !.ret = <<e.action, e.target>>]

\* the annotated events of the element the view is mounted on
EventsOf(S, v) ==
  LET c == S.views[v].containerElement
  IN IF c.k # "jq" \/ c.els = <<>> THEN {}
     ELSE {ev \in EventNames : EventAttr(S.dom.ename[c.els[1]], ev) # Undef}

ActionAttr(S, v, ev) == EventAttr(S.dom.ename[S.views[v].containerElement.els[1]], ev)

\* C39: when the answer to load() has been applied, the view's target-action
\* table has, for every event annotation of its mount element, the view's
\* parent as the target and the annotated name as the action; triggering an
\* entry whose action is a function calls that function, and triggering one
\* whose action is a string calls the method of that name the target has at
\* that moment.
C39_TargetActionsOfAnnotations ==
  \A v \in Views :
    views[v].exists =>
      /\ \A b \in Bundles :
           Answerable(v, b) =>
             LET S == answer(Current, v, b)
             IN \A ev \in EventsOf(S, v) :
                  /\ S.views[v].targetActions[ev] =
                       [target |-> S.views[v].parentView, action |-> ActionAttr(S, v, ev)]
                  /\ \A has \in [Views -> SUBSET MethodNames] :
                       LET T == trigger(S, v, ev, has)
                           p == S.views[v].parentView
                       IN IF p # NoView /\ ActionAttr(S, v, ev) \in has[p]
                          THEN T.err = S.err /\ T.ret = <<ActionAttr(S, v, ev), p>>
                          ELSE T.err = "TypeError" /\ T.ret = S.ret
      /\ \A ev \in EventNames, target \in Views \cup {NoView},
            action \in MethodNames \cup Functions, has \in [Views -> SUBSET MethodNames] :
           LET S == registerTargetActionEvent(Current, v, ev, target, action)
               T == trigger(S, v, ev, has)
           IN /\ S.views[v].targetActions[ev] = [target |-> target, action |-> action]
              /\ \A x \in Views \ {v} : S.views[x] = views[x]
              /\ IF action \in Functions THEN T.err = NoErr /\ T.ret = <<action, Entry>>
                 ELSE IF target # NoView /\ action \in has[target]
                      THEN T.err = NoErr /\ T.ret = <<action, target>>
                      ELSE T.err = "TypeError" /\ T.ret = Undef

C39_Witness ==
  \E v \in Views, b \in Bundles :
    /\ views[v].exists /\ Answerable(v, b)
    /\ views[v].targetActions["tap"] = NoTargetAction
    /\ LET S == answer(Current, v, b)
       IN /\ "tap" \in EventsOf(S, v)
          /\ isLoaded(S, v)
          /\ S.views[v].parentView # NoView
          /\ S.views[v].targetActions["tap"].target = S.views[v].parentView
          /\ trigger(S, v, "tap", [x \in Views |-> MethodNames]).ret
               = <<"onTap", S.views[v].parentView>>

====
